---- MODULE Spec2Model ----
(***************************************************************************)
(* Model of the GPU command-submission engine of nvidia-uvm/uvm_channel.c: *)
(* the GPFIFO ring of a channel, its tracking semaphore, the push-info     *)
(* free-list, reservation (try_claim_channel / uvm_channel_reserve),       *)
(* uvm_channel_begin_push, uvm_channel_end_push,                           *)
(* uvm_channel_update_progress_with_max and uvm_channel_check_errors, run  *)
(* by several host threads against a GPU that consumes GP-entries in       *)
(* order.  Every section of code that runs under the pool spin lock is one *)
(* atomic step; the unlocked parts of a function are steps of their own.   *)
(*                                                                         *)
(* Specifications:                                                         *)
(*   Spec        one ring under contention by two threads, with faults     *)
(*   SpecLock    the same with uvm_spin_lock / uvm_spin_unlock as steps    *)
(*   SpecLive    a channel without errors, fair GPU and a polling thread   *)
(*   SpecPool    channel_reserve_in_pool over the channels of a pool       *)
(*   SpecErrors  uvm_channel_check_errors, ECC errors, the fatal flag and  *)
(*               uvm_channel_manager_check_errors                          *)
(***************************************************************************)
EXTENDS Integers, Sequences, FiniteSets, TLC

(* ---- bounds of the model ---- *)
\* ring size (channel->num_gpfifo_entries), scaled down from [32, 2^20]
NumGpfifoEntries == 3
\* claims granted per channel before the clients stop reserving
MaxPushes == 4
\* width of the semaphore payload (NvU32 in the source), scaled down
PayloadBits == 2
\* width of the 64-bit tracking values (NvU64 in the source), scaled down
ValueBits == 8
\* max_to_complete of uvm_channel_update_progress: 8 in the source, where it
\* is below the smallest ring; scaled down with the ring so that it still is
DefaultMaxToComplete == 1
\* the entries of the capability table, UVM_COPY_ENGINE_COUNT_MAX, scaled down
MaxCopyEngines == 3
\* the module parameter uvm_channel_num_gpfifo_entries takes every value up
\* to this one, and values around the powers of two above it
MaxSmallParam == 40
\* the peer GPUs of pool_to_use.gpu_to_gpu, UVM_ID_MAX_GPUS, scaled down
MaxPeerGpus == 2

(* ---- program constants ---- *)
\* channels of a pool (channel_pool_num_channels)
NumChannels == 2

N == NumGpfifoEntries
Channels == 0 .. (NumChannels - 1)
\* the host threads: two, so that every pair of operations can interleave
Threads == {1, 2}
\* the channel whose ring the threads of Spec contend on
RingChannels == {0}
Slots == 0 .. (N - 1)
PayloadMod == 2 ^ PayloadBits
ValueMod == 2 ^ ValueBits
NULL == -1

NV_OK == "NV_OK"
NV_ERR_RC_ERROR == "NV_ERR_RC_ERROR"
NV_ERR_ECC_ERROR == "NV_ERR_ECC_ERROR"
NV_ERR_NO_MEMORY == "NV_ERR_NO_MEMORY"
UVM_CHANNEL_UPDATE_MODE_COMPLETED == "COMPLETED"
UVM_CHANNEL_UPDATE_MODE_FORCE_ALL == "FORCE_ALL"

VARIABLES
    cpu_put,                \* channel->cpu_put
    gpu_get,                \* channel->gpu_get
    current_pushes_count,   \* channel->current_pushes_count
    queued_value,           \* channel->tracking_sem.queued_value
    completed_value,        \* channel->tracking_sem.completed_value (host cache)
    gpfifo_entries,         \* channel->gpfifo_entries[] (host bookkeeping)
    available_push_infos,   \* channel->available_push_infos (list, head first)
    gpFifoEntries,          \* channel_info.gpFifoEntries[]: release payload of each GP-entry
    gpu_put,                \* GPPUT as last written by write_gpu_put
    hw_get,                 \* the GPU's own read pointer into the GP-entries
    sem_payload,            \* the semaphore word the GPU writes
    errorNotifier,          \* channel_info.errorNotifier->status
    ecc_error_notifier,     \* *gpu->ecc.error_notifier
    ecc_enabled,            \* gpu->ecc.enabled
    lock,                   \* channel->pool->lock: the threads holding it
    global_fatal_error,     \* g_uvm_global fatal error status
    pushbuffer,             \* calls seen by the pushbuffer collaborator, per channel
    thread,                 \* per host thread: position and locals
    module_params,          \* uvm_channel_num_gpfifo_entries and the three *_loc strings
    gpu,                    \* what the manager reads of its GPU and of the build
    manager                 \* the uvm_channel_manager_t and the progress of its creation

vars == <<cpu_put, gpu_get, current_pushes_count, queued_value, completed_value,
          gpfifo_entries, available_push_infos, gpFifoEntries, gpu_put, hw_get,
          sem_payload, errorNotifier, ecc_error_notifier, ecc_enabled, lock,
          global_fatal_error, pushbuffer, thread, module_params, gpu, manager>>

ringVars == <<cpu_put, gpu_get, current_pushes_count, queued_value,
              gpfifo_entries, available_push_infos, gpFifoEntries, gpu_put,
              pushbuffer>>
\* what no operation on a created channel changes
confVars == <<ecc_enabled, module_params, gpu, manager>>
gpuVars == <<hw_get, sem_payload, errorNotifier, ecc_error_notifier, confVars>>

(***************************************************************************)
(* Construction of the channel manager: init_channel_manager_conf, the     *)
(* choice of copy engines and the creation of the channel pools.           *)
(***************************************************************************)
NV_ERR_NOT_SUPPORTED == "NV_ERR_NOT_SUPPORTED"

UVM_CHANNEL_NUM_GPFIFO_ENTRIES_DEFAULT == 1024
UVM_CHANNEL_NUM_GPFIFO_ENTRIES_MIN == 32
UVM_CHANNEL_NUM_GPFIFO_ENTRIES_MAX == 1048576

UVM_BUFFER_LOCATION_DEFAULT == "UVM_BUFFER_LOCATION_DEFAULT"
UVM_BUFFER_LOCATION_SYS == "UVM_BUFFER_LOCATION_SYS"
UVM_BUFFER_LOCATION_VID == "UVM_BUFFER_LOCATION_VID"

\* a & b on naturals, bit by bit
RECURSIVE BitAnd(_, _)
BitAnd(a, b) ==
    IF a = 0 \/ b = 0
    THEN 0
    ELSE (a % 2) * (b % 2) + 2 * BitAnd(a \div 2, b \div 2)

\* is_power_of_2 of the kernel: n != 0 && (n & (n - 1)) == 0
is_power_of_2(n) == n # 0 /\ BitAnd(n, n - 1) = 0

\* lines 980-987 without the clamp to the minimum
num_gpfifo_entries_conf_NoMin(param) ==
    LET clamped == IF param > UVM_CHANNEL_NUM_GPFIFO_ENTRIES_MAX
                   THEN UVM_CHANNEL_NUM_GPFIFO_ENTRIES_MAX
                   ELSE param
    IN  IF ~is_power_of_2(clamped)
        THEN UVM_CHANNEL_NUM_GPFIFO_ENTRIES_DEFAULT
        ELSE clamped

\* lines 980-987: manager->conf.num_gpfifo_entries for the value of the
\* module parameter uvm_channel_num_gpfifo_entries
num_gpfifo_entries_conf(param) ==
    LET clamped == IF param < UVM_CHANNEL_NUM_GPFIFO_ENTRIES_MIN
                   THEN UVM_CHANNEL_NUM_GPFIFO_ENTRIES_MIN
                   ELSE IF param > UVM_CHANNEL_NUM_GPFIFO_ENTRIES_MAX
                   THEN UVM_CHANNEL_NUM_GPFIFO_ENTRIES_MAX
                   ELSE param
    IN  IF ~is_power_of_2(clamped)
        THEN UVM_CHANNEL_NUM_GPFIFO_ENTRIES_DEFAULT
        ELSE clamped

\* lines 940-945: the argument is not looked at, the string tested is always
\* uvm_channel_gpfifo_loc
is_string_valid_location(loc) ==
    \/ module_params.uvm_channel_gpfifo_loc = "sys"
    \/ module_params.uvm_channel_gpfifo_loc = "vid"
    \/ module_params.uvm_channel_gpfifo_loc = "auto"

\* lines 947-957 (the UVM_ASSERT changes no state)
string_to_buffer_location(loc) ==
    IF loc = "sys" THEN UVM_BUFFER_LOCATION_SYS
    ELSE IF loc = "vid" THEN UVM_BUFFER_LOCATION_VID
    ELSE UVM_BUFFER_LOCATION_DEFAULT

\* lines 959-970
buffer_location_to_string(loc) ==
    IF loc = UVM_BUFFER_LOCATION_SYS THEN "sys"
    ELSE IF loc = UVM_BUFFER_LOCATION_VID THEN "vid"
    ELSE IF loc = UVM_BUFFER_LOCATION_DEFAULT THEN "auto"
    ELSE "NULL"

\* lines 1007-1030: manager->conf.pushbuffer_loc
pushbuffer_loc_conf ==
    LET pushbuffer_loc_value ==
            IF ~is_string_valid_location(module_params.uvm_channel_pushbuffer_loc)
            THEN "auto"
            ELSE module_params.uvm_channel_pushbuffer_loc
    IN  IF pushbuffer_loc_value = "vid" /\ ~gpu.NVCPU_IS_AARCH64
        THEN UVM_BUFFER_LOCATION_VID
        ELSE UVM_BUFFER_LOCATION_SYS

\* lines 1041-1071: manager->conf.gpfifo_loc
gpfifo_loc_conf ==
    LET gpfifo_loc_value ==
            IF ~is_string_valid_location(module_params.uvm_channel_gpfifo_loc)
            THEN "auto"
            ELSE module_params.uvm_channel_gpfifo_loc
        default == IF gpu.sysmem_link_nvlink_2 THEN UVM_BUFFER_LOCATION_SYS
                   ELSE UVM_BUFFER_LOCATION_VID
    IN  IF string_to_buffer_location(gpfifo_loc_value) # UVM_BUFFER_LOCATION_DEFAULT
        THEN string_to_buffer_location(gpfifo_loc_value)
        ELSE default

\* lines 1049-1078: manager->conf.gpput_loc
gpput_loc_conf ==
    LET gpput_loc_value ==
            IF ~is_string_valid_location(module_params.uvm_channel_gpput_loc)
            THEN "auto"
            ELSE module_params.uvm_channel_gpput_loc
    IN  IF string_to_buffer_location(gpput_loc_value) # UVM_BUFFER_LOCATION_DEFAULT
        THEN string_to_buffer_location(gpput_loc_value)
        ELSE UVM_BUFFER_LOCATION_VID

\* init_channel_manager_conf, lines 972-1079: manager->conf
init_channel_manager_conf ==
    LET num == num_gpfifo_entries_conf(module_params.uvm_channel_num_gpfifo_entries)
    IN  IF gpu.mem_info_size = 0
        THEN [num_gpfifo_entries |-> num,
              pushbuffer_loc |-> UVM_BUFFER_LOCATION_SYS,
              gpfifo_loc |-> UVM_BUFFER_LOCATION_SYS,
              gpput_loc |-> UVM_BUFFER_LOCATION_SYS]
        ELSE IF ~gpu.gpfifo_in_vidmem_supported
        THEN [num_gpfifo_entries |-> num,
              pushbuffer_loc |-> pushbuffer_loc_conf,
              gpfifo_loc |-> UVM_BUFFER_LOCATION_DEFAULT,
              gpput_loc |-> UVM_BUFFER_LOCATION_DEFAULT]
        ELSE [num_gpfifo_entries |-> num,
              pushbuffer_loc |-> pushbuffer_loc_conf,
              gpfifo_loc |-> gpfifo_loc_conf,
              gpput_loc |-> gpput_loc_conf]

(* ---- the choice of copy engines ---- *)
\* UVM_COPY_ENGINE_COUNT_MAX: the entries of the capability table, and the
\* value of preferred_ce and best_ce that stands for no copy engine
UVM_COPY_ENGINE_COUNT_MAX == MaxCopyEngines
CopyEngines == 0 .. (UVM_COPY_ENGINE_COUNT_MAX - 1)

UVM_CHANNEL_TYPE_CPU_TO_GPU == "UVM_CHANNEL_TYPE_CPU_TO_GPU"
UVM_CHANNEL_TYPE_GPU_TO_CPU == "UVM_CHANNEL_TYPE_GPU_TO_CPU"
UVM_CHANNEL_TYPE_GPU_INTERNAL == "UVM_CHANNEL_TYPE_GPU_INTERNAL"
UVM_CHANNEL_TYPE_MEMOPS == "UVM_CHANNEL_TYPE_MEMOPS"
UVM_CHANNEL_TYPE_GPU_TO_GPU == "UVM_CHANNEL_TYPE_GPU_TO_GPU"

\* lines 887-891: the order in which the types get their copy engine
types ==
    <<UVM_CHANNEL_TYPE_CPU_TO_GPU, UVM_CHANNEL_TYPE_GPU_TO_CPU,
      UVM_CHANNEL_TYPE_GPU_INTERNAL, UVM_CHANNEL_TYPE_GPU_TO_GPU,
      UVM_CHANNEL_TYPE_MEMOPS>>
ChannelTypes == {types[i] : i \in 1 .. Len(types)}

\* hweight32: the number of bits set in a mask
RECURSIVE hweight32(_)
hweight32(mask) ==
    IF mask = 0 THEN 0 ELSE (mask % 2) + hweight32(mask \div 2)

\* the test of lines 715-733 without the exclusion of GRCEs
ce_usable_for_channel_type_IgnoresGrce(type, cap) ==
    IF cap.supported = 0
    THEN FALSE
    ELSE CASE type \in {UVM_CHANNEL_TYPE_CPU_TO_GPU, UVM_CHANNEL_TYPE_GPU_TO_CPU} ->
                  cap.sysmem = 1
           [] type \in {UVM_CHANNEL_TYPE_GPU_INTERNAL, UVM_CHANNEL_TYPE_MEMOPS} ->
                  TRUE
           [] type = UVM_CHANNEL_TYPE_GPU_TO_GPU ->
                  cap.p2p = 1

\* lines 715-733
ce_usable_for_channel_type(type, cap) ==
    IF cap.supported = 0 \/ cap.grce = 1
    THEN FALSE
    ELSE CASE type \in {UVM_CHANNEL_TYPE_CPU_TO_GPU, UVM_CHANNEL_TYPE_GPU_TO_CPU} ->
                  cap.sysmem = 1
           [] type \in {UVM_CHANNEL_TYPE_GPU_INTERNAL, UVM_CHANNEL_TYPE_MEMOPS} ->
                  TRUE
           [] type = UVM_CHANNEL_TYPE_GPU_TO_GPU ->
                  cap.p2p = 1

\* the count of lines 735-748 finding no copy engine in use
ce_usage_count_Zero(ce, preferred_ce) == 0

\* lines 735-748: the types that have ce as their preferred copy engine
ce_usage_count(ce, preferred_ce) ==
    Cardinality({type \in ChannelTypes : preferred_ce[type] = ce})

\* the comparison of lines 751-843 with the default ordering of lines
\* 830-842 for every type
compare_ce_for_channel_type_DefaultOnly(ce_caps, type, ce_index0, ce_index1, preferred_ce) ==
    LET cap0 == ce_caps[ce_index0]
        cap1 == ce_caps[ce_index1]
        ce0_usage == ce_usage_count(ce_index0, preferred_ce)
        ce1_usage == ce_usage_count(ce_index1, preferred_ce)
    IN  IF ce0_usage # ce1_usage THEN ce0_usage - ce1_usage
        ELSE IF cap0.shared # cap1.shared THEN cap0.shared - cap1.shared
        ELSE ce_index0 - ce_index1

\* lines 751-843: negative if ce_index0 is better than ce_index1 for the type
compare_ce_for_channel_type(ce_caps, type, ce_index0, ce_index1, preferred_ce) ==
    LET cap0 == ce_caps[ce_index0]
        cap1 == ce_caps[ce_index1]
        pce_diff == hweight32(cap1.cePceMask) - hweight32(cap0.cePceMask)
        ce0_usage == ce_usage_count(ce_index0, preferred_ce)
        ce1_usage == ce_usage_count(ce_index1, preferred_ce)
        \* lines 830-842
        byUsage == IF ce0_usage # ce1_usage THEN ce0_usage - ce1_usage
                   ELSE IF cap0.shared # cap1.shared THEN cap0.shared - cap1.shared
                   ELSE ce_index0 - ce_index1
        byNvlink == IF cap0.nvlinkP2p # cap1.nvlinkP2p
                    THEN cap0.nvlinkP2p - cap1.nvlinkP2p
                    ELSE byUsage
    IN  CASE type = UVM_CHANNEL_TYPE_CPU_TO_GPU ->
                 IF cap0.sysmemRead # cap1.sysmemRead
                 THEN cap1.sysmemRead - cap0.sysmemRead
                 ELSE byNvlink
          [] type = UVM_CHANNEL_TYPE_GPU_TO_CPU ->
                 IF cap0.sysmemWrite # cap1.sysmemWrite
                 THEN cap1.sysmemWrite - cap0.sysmemWrite
                 ELSE byNvlink
          [] type = UVM_CHANNEL_TYPE_GPU_TO_GPU ->
                 IF pce_diff # 0 THEN pce_diff ELSE byUsage
          [] type = UVM_CHANNEL_TYPE_GPU_INTERNAL ->
                 IF pce_diff # 0 THEN pce_diff ELSE byNvlink
          [] type = UVM_CHANNEL_TYPE_MEMOPS ->
                 byUsage

\* the loop of lines 856-872 from copy engine i on: the best copy engine so
\* far and the usable ones marked in manager->ce_mask
RECURSIVE PickLoop(_, _, _, _, _)
PickLoop(ce_caps, type, preferred_ce, i, st) ==
    IF i = UVM_COPY_ENGINE_COUNT_MAX
    THEN st
    ELSE IF ~ce_usable_for_channel_type(type, ce_caps[i])
    THEN PickLoop(ce_caps, type, preferred_ce, i + 1, st)
    ELSE LET marked == [st EXCEPT !.ce_mask = @ \union {i}]
         IN  IF st.best_ce = UVM_COPY_ENGINE_COUNT_MAX
             THEN PickLoop(ce_caps, type, preferred_ce, i + 1,
                           [marked EXCEPT !.best_ce = i])
             ELSE IF compare_ce_for_channel_type(ce_caps, type, i, st.best_ce,
                                                 preferred_ce) < 0
             THEN PickLoop(ce_caps, type, preferred_ce, i + 1,
                           [marked EXCEPT !.best_ce = i])
             ELSE PickLoop(ce_caps, type, preferred_ce, i + 1, marked)

\* lines 874-880 letting a type without usable copy engine pass
pick_ce_for_channel_type_NoError(m, ce_caps, type) ==
    LET st == PickLoop(ce_caps, type, m.preferred_ce, 0,
                       [best_ce |-> UVM_COPY_ENGINE_COUNT_MAX, ce_mask |-> m.ce_mask])
    IN  [m EXCEPT !.ce_mask = st.ce_mask,
                  !.preferred_ce = [@ EXCEPT ![type] = st.best_ce]]

\* pick_ce_for_channel_type, lines 846-880, on the manager m: the status
\* is returned in m.status
pick_ce_for_channel_type(m, ce_caps, type) ==
    LET st == PickLoop(ce_caps, type, m.preferred_ce, 0,
                       [best_ce |-> UVM_COPY_ENGINE_COUNT_MAX, ce_mask |-> m.ce_mask])
    IN  IF st.best_ce = UVM_COPY_ENGINE_COUNT_MAX
        THEN [m EXCEPT !.ce_mask = st.ce_mask, !.status = NV_ERR_NOT_SUPPORTED]
        ELSE [m EXCEPT !.ce_mask = st.ce_mask,
                       !.preferred_ce = [@ EXCEPT ![type] = st.best_ce]]

\* bitmap_weight(manager->ce_mask, ce): the usable copy engines below ce
bitmap_weight(mask, ce) == Cardinality({e \in mask : e < ce})

\* channel_manager_ce_pool, lines 914-928: the index of the pool of ce
channel_manager_ce_pool(m, ce) == bitmap_weight(m.ce_mask, ce)

\* channel_manager_pick_copy_engines, lines 882-909, from the i-th type on:
\* the first type without usable copy engine ends the loop
RECURSIVE channel_manager_pick_copy_engines(_, _, _)
channel_manager_pick_copy_engines(m, ce_caps, i) ==
    IF i > Len(types) \/ m.status # NV_OK
    THEN m
    ELSE channel_manager_pick_copy_engines(
             pick_ce_for_channel_type(m, ce_caps, types[i]), ce_caps, i + 1)

(* ---- the inputs of the construction ---- *)
\* a UvmGpuCopyEngineCaps; the flags are the numbers 0 and 1, as the
\* comparisons subtract them
Cap(supported, grce, sysmem, p2p, nvlinkP2p, shared, sysmemRead, sysmemWrite, cePceMask) ==
    [supported |-> supported, grce |-> grce, sysmem |-> sysmem, p2p |-> p2p,
     nvlinkP2p |-> nvlinkP2p, shared |-> shared, sysmemRead |-> sysmemRead,
     sysmemWrite |-> sysmemWrite, cePceMask |-> cePceMask]

\* an entry the memset of line 893 left and RM did not fill in
CapUnsupported == Cap(0, 0, 0, 0, 0, 0, 0, 0, 0)
\* a copy engine for sysmem only
CapSysmem == Cap(1, 0, 1, 0, 0, 0, 1, 1, 0)
\* a copy engine for sysmem and nvlink P2P, with 8 PCEs
CapSysmemNvlink == Cap(1, 0, 1, 1, 1, 0, 1, 1, 255)
\* a copy engine for P2P, with 16 PCEs
CapP2p == Cap(1, 0, 0, 1, 0, 0, 1, 1, 65535)

\* the copy engines RM may report
CeProfiles ==
    {CapUnsupported, CapSysmem, CapSysmemNvlink, CapP2p,
     Cap(1, 1, 1, 1, 0, 0, 1, 1, 255),      \* a GRCE
     Cap(1, 0, 1, 0, 0, 0, 1, 0, 255),      \* sysmem, slow sysmem writes
     Cap(1, 0, 1, 0, 0, 0, 0, 1, 255),      \* sysmem, slow sysmem reads
     Cap(1, 0, 1, 1, 0, 1, 1, 1, 255),      \* sysmem and P2P, sharing its PCEs
     Cap(1, 0, 1, 1, 0, 0, 1, 1, 65535),    \* sysmem and P2P, with 16 PCEs
     Cap(1, 0, 0, 0, 0, 0, 0, 0, 255)}      \* neither sysmem nor P2P

\* the table CE0 = sysmem, CE1 = sysmem and nvlink P2P with 8 PCEs, CE2 = P2P
\* with 16 PCEs, no other copy engine
ExampleCaps ==
    [ce \in CopyEngines |->
        CASE ce = 0 -> CapSysmem
          [] ce = 1 -> CapSysmemNvlink
          [] ce = 2 -> CapP2p
          [] OTHER -> CapUnsupported]

\* the same table for every speed of sysmem reads and writes, the same on
\* all copy engines
ExampleTables ==
    {[ce \in CopyEngines |->
         IF ExampleCaps[ce].supported = 0
         THEN ExampleCaps[ce]
         ELSE [ExampleCaps[ce] EXCEPT !.sysmemRead = r, !.sysmemWrite = w]] :
        r \in {0, 1}, w \in {0, 1}}

\* the values of uvm_channel_num_gpfifo_entries tried
ParamValues ==
    (0 .. MaxSmallParam)
        \union {2 ^ k + d : k \in 6 .. 21, d \in {-1, 0, 1}}
        \union {1500}

\* the strings of the location parameters tried
LocStrings == {"sys", "vid", "auto", "bogus"}

\* the module parameters as the source initialises them
DefaultParams ==
    [uvm_channel_num_gpfifo_entries |-> UVM_CHANNEL_NUM_GPFIFO_ENTRIES_DEFAULT,
     uvm_channel_gpfifo_loc |-> "auto",
     uvm_channel_gpput_loc |-> "auto",
     uvm_channel_pushbuffer_loc |-> "auto"]

\* a GPU with memory, GPFIFO in vidmem supported, no NVLINK 2 to sysmem, no
\* proxy pool, on a build that is not AARCH64, with the copy engines of
\* ExampleCaps
DefaultGpu ==
    [mem_info_size |-> 1, gpfifo_in_vidmem_supported |-> TRUE,
     sysmem_link_nvlink_2 |-> FALSE, NVCPU_IS_AARCH64 |-> FALSE,
     uses_proxy_channel_pool |-> FALSE, ces_caps |-> ExampleCaps]

\* the values of uvm_id_gpu_index for the peer GPUs
PeerGpus == 0 .. MaxPeerGpus - 1

(* ---- uvm_channel_manager_create_common ---- *)
\* the manager as uvm_kvmalloc_zero and lines 1093-1094 leave it
AllocatedManager ==
    [pc |-> "init_conf",
     conf |-> [num_gpfifo_entries |-> 0,
               pushbuffer_loc |-> UVM_BUFFER_LOCATION_DEFAULT,
               gpfifo_loc |-> UVM_BUFFER_LOCATION_DEFAULT,
               gpput_loc |-> UVM_BUFFER_LOCATION_DEFAULT],
     ce_mask |-> {},
     preferred_ce |-> [type \in ChannelTypes |-> UVM_COPY_ENGINE_COUNT_MAX],
     num_channel_pools |-> 0,
     channel_pools |-> <<>>,
     default_for_type |-> [type \in ChannelTypes |-> NULL],
     gpu_to_gpu |-> [peer \in PeerGpus |-> NULL],
     num_channels |-> <<>>,
     channels_created |-> <<>>,
     channels_destroyed |-> <<>>,
     status |-> NV_OK]

\* line 1154: init_channel_manager_conf
InitConf ==
    /\ manager.pc = "init_conf"
    /\ manager' = [manager EXCEPT !.conf = init_channel_manager_conf,
                                  !.pc = "pick_copy_engines"]
    /\ UNCHANGED <<lock, ringVars, hw_get, sem_payload, errorNotifier,
                   ecc_error_notifier, ecc_enabled, module_params, gpu,
                   completed_value, global_fatal_error, thread>>

\* lines 1096-1098: the copy engines are chosen; an error ends the creation
PickCopyEngines ==
    LET m == channel_manager_pick_copy_engines(manager, gpu.ces_caps, 1)
    IN  /\ manager.pc = "pick_copy_engines"
        /\ manager' = [m EXCEPT !.pc = IF m.status # NV_OK THEN "destroy"
                                       ELSE "create_pools"]
        /\ UNCHANGED <<lock, ringVars, hw_get, sem_payload, errorNotifier,
                       ecc_error_notifier, ecc_enabled, module_params, gpu,
                       completed_value, global_fatal_error, thread>>

\* the usable copy engines from the highest bit down
RECURSIVE SetBits_Descending(_, _)
SetBits_Descending(mask, from) ==
    IF from = UVM_COPY_ENGINE_COUNT_MAX THEN <<>>
    ELSE IF from \in mask THEN SetBits_Descending(mask, from + 1) \o <<from>>
    ELSE SetBits_Descending(mask, from + 1)

\* the usable copy engines in the order of for_each_set_bit
RECURSIVE SetBits(_, _)
SetBits(mask, from) ==
    IF from = UVM_COPY_ENGINE_COUNT_MAX THEN <<>>
    ELSE IF from \in mask THEN <<from>> \o SetBits(mask, from + 1)
    ELSE SetBits(mask, from + 1)

\* channel_pool_num_channels, lines 650-657
channel_pool_num_channels(is_proxy) == IF is_proxy THEN 1 ELSE 2

\* channel_destroy, lines 482-516, for channel i of pool p: the count of the
\* pool goes down; channels_destroyed keeps the order of the calls
channel_destroy(m, p, i) ==
    [m EXCEPT !.num_channels[p] = @ - 1,
              !.channels_destroyed = Append(@, <<p, i>>)]

\* channel_pool_destroy freeing the pool without destroying its channels
channel_pool_destroy_LeavesChannels(m, p) ==
    [m EXCEPT !.num_channel_pools = @ - 1]

\* channel_pool_destroy, lines 659-668: the channels from the last one
\* down, then the pool is off the count of the manager
RECURSIVE channel_pool_destroy(_, _)
channel_pool_destroy(m, p) ==
    IF m.num_channels[p] > 0
    THEN channel_pool_destroy(channel_destroy(m, p, m.num_channels[p] - 1), p)
    ELSE [m EXCEPT !.num_channel_pools = @ - 1]

\* channel_create, lines 518-611, for channel i of pool p: the channel
\* counts from line 530 on, and a failure destroys it again (line 608)
channel_create(m, p, i, status) ==
    LET m1 == [m EXCEPT !.num_channels[p] = @ + 1,
                        !.channels_created = Append(@, <<p, i>>)]
    IN  IF status = NV_OK THEN m1
        ELSE [channel_destroy(m1, p, i) EXCEPT !.status = status]

\* the ways a channel_pool_create of n channels can go: the allocation of
\* line 689 fails, channel_create or init_channel fails for a channel,
\* or none does
PoolOutcomes(n) ==
    {[at |-> NULL, step |-> "ok", status |-> NV_OK],
     [at |-> NULL, step |-> "alloc", status |-> NV_ERR_NO_MEMORY]}
        \union {[at |-> i, step |-> "create", status |-> NV_ERR_NO_MEMORY] : i \in 0 .. n - 1}
        \union {[at |-> i, step |-> "init", status |-> NV_ERR_RC_ERROR] : i \in 0 .. n - 1}

\* the loop of lines 695-705 from channel i on, and the error label
RECURSIVE PoolCreateLoop(_, _, _, _, _)
PoolCreateLoop(m, p, i, n, outcome) ==
    IF i = n THEN m
    ELSE IF outcome.at = i /\ outcome.step = "create"
    THEN channel_pool_destroy(channel_create(m, p, i, outcome.status), p)
    ELSE IF outcome.at = i /\ outcome.step = "init"
    THEN channel_pool_destroy(
             [channel_create(m, p, i, NV_OK) EXCEPT !.status = outcome.status], p)
    ELSE PoolCreateLoop(channel_create(m, p, i, NV_OK), p, i + 1, n, outcome)

\* channel_pool_create, lines 670-712, for the pool at
\* channel_pools + num_channel_pools; the status is returned in m.status
channel_pool_create(m, ce_index, is_proxy, outcome) ==
    LET p == m.num_channel_pools + 1
        m1 == [m EXCEPT !.channel_pools = Append(@, [ce_index |-> ce_index,
                                                     is_proxy |-> is_proxy]),
                        !.num_channels = Append(@, 0)]
    IN  IF outcome.step = "alloc"
        THEN [m1 EXCEPT !.status = outcome.status]
        ELSE PoolCreateLoop([m1 EXCEPT !.num_channel_pools = @ + 1], p, 0,
                            channel_pool_num_channels(is_proxy), outcome)

\* lines 1109-1115: channel_pool_create for the next usable copy engine; a
\* failure ends the creation
CreatePool ==
    /\ manager.pc = "create_pools"
    /\ \E outcome \in PoolOutcomes(channel_pool_num_channels(FALSE)) :
          LET ce == SetBits(manager.ce_mask, 0)[manager.num_channel_pools + 1]
              m == channel_pool_create(manager, ce, FALSE, outcome)
          IN  manager' = [m EXCEPT !.pc =
                              IF m.status # NV_OK THEN "destroy"
                              ELSE IF m.num_channel_pools = Cardinality(m.ce_mask)
                              THEN "assign_pools" ELSE "create_pools"]
    /\ UNCHANGED <<lock, ringVars, hw_get, sem_payload, errorNotifier,
                   ecc_error_notifier, ecc_enabled, module_params, gpu,
                   completed_value, global_fatal_error, thread>>

\* lines 1117-1138: each type gets the pool of its copy engine; a GPU with a
\* proxy pool gets one more pool, for MEMOPS
AssignPools ==
    LET m == [manager EXCEPT !.default_for_type =
                  [type \in ChannelTypes |->
                      channel_manager_ce_pool(manager, manager.preferred_ce[type])]]
    IN  /\ manager.pc = "assign_pools"
        /\ IF ~gpu.uses_proxy_channel_pool
           THEN manager' = [m EXCEPT !.pc = "created"]
           ELSE \E outcome \in PoolOutcomes(channel_pool_num_channels(TRUE)) :
                   LET m1 == channel_pool_create(
                                 m, m.preferred_ce[UVM_CHANNEL_TYPE_MEMOPS], TRUE,
                                 outcome)
                   IN  IF m1.status # NV_OK
                       THEN manager' = [m1 EXCEPT !.pc = "destroy"]
                       ELSE manager' =
                                [m1 EXCEPT
                                    !.default_for_type[UVM_CHANNEL_TYPE_MEMOPS] =
                                        m.num_channel_pools,
                                    !.pc = "created"]
        /\ UNCHANGED <<lock, ringVars, hw_get, sem_payload, errorNotifier,
                       ecc_error_notifier, ecc_enabled, module_params, gpu,
                       completed_value, global_fatal_error, thread>>

\* channel_manager_destroy_pools, lines 1183-1189: the pools from the last
\* one counted down
RECURSIVE channel_manager_destroy_pools(_)
channel_manager_destroy_pools(m) ==
    IF m.num_channel_pools > 0
    THEN channel_manager_destroy_pools(channel_pool_destroy(m, m.num_channel_pools))
    ELSE [m EXCEPT !.channel_pools = <<>>]

\* lines 1176-1178: the creation failed, and uvm_channel_manager_destroy
\* (lines 1191-1205) destroys the pools created so far
ManagerDestroy ==
    /\ manager.pc = "destroy"
    /\ manager' = [channel_manager_destroy_pools(manager) EXCEPT !.pc = "failed"]
    /\ UNCHANGED <<lock, ringVars, hw_get, sem_payload, errorNotifier,
                   ecc_error_notifier, ecc_enabled, module_params, gpu,
                   completed_value, global_fatal_error, thread>>

\* the manager uvm_channel_manager_create_common returns for the default
\* module parameters and GPU
ManagerCreated ==
    /\ module_params = DefaultParams
    /\ gpu = DefaultGpu
    /\ manager =
           LET picked == channel_manager_pick_copy_engines(
                             [AllocatedManager EXCEPT !.conf = init_channel_manager_conf],
                             gpu.ces_caps, 1)
               cs == SetBits(picked.ce_mask, 0)
           IN  [picked EXCEPT
                   !.channel_pools = [i \in 1 .. Len(cs) |->
                                         [ce_index |-> cs[i], is_proxy |-> FALSE]],
                   !.num_channel_pools = Len(cs),
                   !.num_channels = [i \in 1 .. Len(cs) |->
                                        channel_pool_num_channels(FALSE)],
                   !.channels_created =
                       [k \in 1 .. Len(cs) * channel_pool_num_channels(FALSE) |->
                           <<(k - 1) \div channel_pool_num_channels(FALSE) + 1,
                             (k - 1) % channel_pool_num_channels(FALSE)>>],
                   !.default_for_type =
                       [type \in ChannelTypes |->
                           channel_manager_ce_pool(picked, picked.preferred_ce[type])],
                   !.pc = "created"]

(* ---- the pool of a peer GPU ---- *)
\* lines 226-230 without the look at gpu_to_gpu
gpu_to_gpu_pool_AlwaysDefault(m, dst_gpu_index) ==
    m.default_for_type[UVM_CHANNEL_TYPE_GPU_TO_GPU]

\* lines 225-230: the pool uvm_channel_reserve_gpu_to_gpu reserves from
gpu_to_gpu_pool(m, dst_gpu_index) ==
    IF m.gpu_to_gpu[dst_gpu_index] = NULL
    THEN m.default_for_type[UVM_CHANNEL_TYPE_GPU_TO_GPU]
    ELSE m.gpu_to_gpu[dst_gpu_index]

\* uvm_channel_manager_set_p2p_ce storing the pool for every peer
SetP2pCe_AllPeers(peer_gpu_index, optimal_ce) ==
    /\ manager.pc = "created"
    /\ optimal_ce \in manager.ce_mask
    /\ manager' = [manager EXCEPT !.gpu_to_gpu =
                       [p \in PeerGpus |-> channel_manager_ce_pool(manager, optimal_ce)]]
    /\ UNCHANGED <<lock, ringVars, hw_get, sem_payload, errorNotifier,
                   ecc_error_notifier, ecc_enabled, module_params, gpu,
                   completed_value, global_fatal_error, thread>>

\* uvm_channel_manager_set_p2p_ce, lines 930-938, for a copy engine of the
\* mask (the assertion of channel_manager_ce_pool)
SetP2pCe(peer_gpu_index, optimal_ce) ==
    /\ manager.pc = "created"
    /\ optimal_ce \in manager.ce_mask
    /\ manager' = [manager EXCEPT !.gpu_to_gpu[peer_gpu_index] =
                       channel_manager_ce_pool(manager, optimal_ce)]
    /\ UNCHANGED <<lock, ringVars, hw_get, sem_payload, errorNotifier,
                   ecc_error_notifier, ecc_enabled, module_params, gpu,
                   completed_value, global_fatal_error, thread>>

(* ---- helpers ---- *)
\* a thread that is in no call; pool is the argument of
\* channel_reserve_in_pool, where the caller chose it; updated is the
\* history of a channel_reserve_in_pool call: the channels whose progress
\* the call has updated since the end of its last scan
IdleThread ==
    [pc |-> "idle", op |-> "none", stack |-> <<>>, channel |-> NULL, status |-> NV_OK,
     claimed |-> FALSE, push_info_index |-> NULL, completed_value |-> 0,
     max_to_complete |-> 0, mode |-> UVM_CHANNEL_UPDATE_MODE_COMPLETED,
     pending_gpfifos |-> 0, fatal_entry |-> NULL, entry |-> NULL, updated |-> {},
     pool |-> NULL]

\* the count of lines 108-111 without the wrap of the ring
PendingGpfifos_NoWrap(put, get) ==
    IF put >= get THEN put - get ELSE get - put

\* number of published slots not yet reclaimed, as lines 108-111 compute it
PendingGpfifos(put, get) ==
    IF put >= get THEN put - get ELSE N - get + put

\* the channels of the pool as channel_create leaves them, no thread in a call
ChannelsCreated ==
    /\ cpu_put = [c \in Channels |-> 0]
    /\ gpu_get = [c \in Channels |-> 0]
    /\ current_pushes_count = [c \in Channels |-> 0]
    /\ queued_value = [c \in Channels |-> 0]
    /\ completed_value = [c \in Channels |-> 0]
    /\ gpfifo_entries = [c \in Channels |->
           [i \in Slots |-> [tracking_semaphore_value |-> 0, push_info |-> NULL]]]
    /\ available_push_infos = [c \in Channels |-> [i \in 1 .. N |-> i - 1]]
    /\ gpFifoEntries = [c \in Channels |-> [i \in Slots |-> 0]]
    /\ gpu_put = [c \in Channels |-> 0]
    /\ hw_get = [c \in Channels |-> 0]
    /\ sem_payload = [c \in Channels |-> 0]
    /\ errorNotifier = [c \in Channels |-> 0]
    /\ ecc_error_notifier = 0
    /\ global_fatal_error = NV_OK
    /\ pushbuffer = [c \in Channels |-> [end_push |-> <<>>, mark_completed |-> <<>>]]
    /\ thread = [t \in Threads |-> IdleThread]
    /\ lock = {}

\* the channels of a GPU with ECC checking enabled
Init ==
    /\ ChannelsCreated
    /\ ecc_enabled = TRUE
    /\ ManagerCreated

(* ---- tracking semaphore ---- *)
\* the reconstruction without the subtraction of a payload period
ReconstructCompleted_NoWrap(payload, queued) ==
    (queued - (queued % PayloadMod)) + payload

\* The refresh of the tracking semaphore, one atomic step: the 64-bit completed
\* value rebuilt from the payload the GPU wrote and the high bits of queued,
\* minus one payload period when that would exceed queued; never lowered.
ReconstructCompleted(payload, queued) ==
    LET combined == (queued - (queued % PayloadMod)) + payload
    IN  IF combined > queued THEN (combined - PayloadMod) % ValueMod ELSE combined

uvm_gpu_tracking_semaphore_update_completed_value(c) ==
    LET v == ReconstructCompleted(sem_payload[c], queued_value[c])
    IN  IF v > completed_value[c] THEN v ELSE completed_value[c]

\* lines 477-480
uvm_channel_update_completed_value(c) ==
    uvm_gpu_tracking_semaphore_update_completed_value(c)

(* ---- uvm_channel_update_progress_with_max: the loop under the lock ---- *)
\* the loop with ">=" for ">" in the test of line 95
RECURSIVE ProgressLoop_StopsOnEqual(_, _, _, _, _, _)
ProgressLoop_StopsOnEqual(c, st, put, completed, max_to_complete, mode) ==
    IF st.gpu_get # put /\ st.completed_count < max_to_complete
    THEN LET entry == gpfifo_entries[c][st.gpu_get]
         IN  IF /\ mode = UVM_CHANNEL_UPDATE_MODE_COMPLETED
                /\ entry.tracking_semaphore_value >= completed
             THEN st
             ELSE ProgressLoop_StopsOnEqual(c,
                      [gpu_get |-> (st.gpu_get + 1) % N,
                       completed_count |-> st.completed_count + 1,
                       available |-> Append(st.available, entry.push_info),
                       marked |-> Append(st.marked,
                                     [slot |-> st.gpu_get,
                                      value |-> entry.tracking_semaphore_value])],
                      put, completed, max_to_complete, mode)
    ELSE st

\* the loop reading the entry after gpu_get instead of the entry at gpu_get
RECURSIVE ProgressLoop_NextEntry(_, _, _, _, _, _)
ProgressLoop_NextEntry(c, st, put, completed, max_to_complete, mode) ==
    IF st.gpu_get # put /\ st.completed_count < max_to_complete
    THEN LET entry == gpfifo_entries[c][(st.gpu_get + 1) % N]
         IN  IF /\ mode = UVM_CHANNEL_UPDATE_MODE_COMPLETED
                /\ entry.tracking_semaphore_value > completed
             THEN st
             ELSE ProgressLoop_NextEntry(c,
                      [gpu_get |-> (st.gpu_get + 1) % N,
                       completed_count |-> st.completed_count + 1,
                       available |-> Append(st.available, entry.push_info),
                       marked |-> Append(st.marked,
                                     [slot |-> (st.gpu_get + 1) % N,
                                      value |-> entry.tracking_semaphore_value])],
                      put, completed, max_to_complete, mode)
    ELSE st

\* the loop without the list_add_tail of line 100
RECURSIVE ProgressLoop_NoListAdd(_, _, _, _, _, _)
ProgressLoop_NoListAdd(c, st, put, completed, max_to_complete, mode) ==
    IF st.gpu_get # put /\ st.completed_count < max_to_complete
    THEN LET entry == gpfifo_entries[c][st.gpu_get]
         IN  IF /\ mode = UVM_CHANNEL_UPDATE_MODE_COMPLETED
                /\ entry.tracking_semaphore_value > completed
             THEN st
             ELSE ProgressLoop_NoListAdd(c,
                      [gpu_get |-> (st.gpu_get + 1) % N,
                       completed_count |-> st.completed_count + 1,
                       available |-> st.available,
                       marked |-> Append(st.marked,
                                     [slot |-> st.gpu_get,
                                      value |-> entry.tracking_semaphore_value])],
                      put, completed, max_to_complete, mode)
    ELSE st

\* the loop stepping over one entry, unreclaimed, when it stops at the limit
RECURSIVE ProgressLoop_SkipsAtLimit(_, _, _, _, _, _)
ProgressLoop_SkipsAtLimit(c, st, put, completed, max_to_complete, mode) ==
    IF st.gpu_get # put /\ st.completed_count < max_to_complete
    THEN LET entry == gpfifo_entries[c][st.gpu_get]
         IN  IF /\ mode = UVM_CHANNEL_UPDATE_MODE_COMPLETED
                /\ entry.tracking_semaphore_value > completed
             THEN st
             ELSE ProgressLoop_SkipsAtLimit(c,
                      [gpu_get |-> (st.gpu_get + 1) % N,
                       completed_count |-> st.completed_count + 1,
                       available |-> Append(st.available, entry.push_info),
                       marked |-> Append(st.marked,
                                     [slot |-> st.gpu_get,
                                      value |-> entry.tracking_semaphore_value])],
                      put, completed, max_to_complete, mode)
    ELSE IF st.gpu_get # put
         THEN [st EXCEPT !.gpu_get = (st.gpu_get + 1) % N]
         ELSE st

RECURSIVE ProgressLoop(_, _, _, _, _, _)
ProgressLoop(c, st, put, completed, max_to_complete, mode) ==
    IF st.gpu_get # put /\ st.completed_count < max_to_complete
    THEN LET entry == gpfifo_entries[c][st.gpu_get]
         IN  IF /\ mode = UVM_CHANNEL_UPDATE_MODE_COMPLETED
                /\ entry.tracking_semaphore_value > completed
             THEN st
             ELSE ProgressLoop(c,
                      [gpu_get |-> (st.gpu_get + 1) % N,
                       completed_count |-> st.completed_count + 1,
                       available |-> Append(st.available, entry.push_info),
                       marked |-> Append(st.marked,
                                     [slot |-> st.gpu_get,
                                      value |-> entry.tracking_semaphore_value])],
                      put, completed, max_to_complete, mode)
    ELSE st

(* ---- channel_is_available ---- *)
\* the test without the pushes that are reserved and not yet ended
channel_is_available_IgnoresReserved(c) ==
    LET next_put == (cpu_put[c] + 1) % N
    IN  next_put # gpu_get[c]

\* the test without the sentinel slot
channel_is_available_NoSentinel(c) ==
    LET next_put == (cpu_put[c] + current_pushes_count[c] + 1) % N
    IN  next_put # gpu_get[c] \/ cpu_put[c] # gpu_get[c]

\* the test that looks at the ring only
channel_is_available_RingOnly(c) ==
    LET next_put == (cpu_put[c] + 1) % N
    IN  next_put # gpu_get[c] \/ current_pushes_count[c] = 0

channel_is_available(c) ==
    LET next_put == (cpu_put[c] + current_pushes_count[c] + 1) % N
    IN  next_put # gpu_get[c]

(* ---- channel_get_available_push_info_index ---- *)
\* the head is read and left on the list (no list_del)
channel_get_available_push_info_index_NoDel(c) ==
    [index |-> Head(available_push_infos[c]),
     available |-> available_push_infos[c]]

\* the head of the free-list is detached: its index, and the list that is left
channel_get_available_push_info_index(c) ==
    [index |-> Head(available_push_infos[c]),
     available |-> Tail(available_push_infos[c])]

(* ---- pieces of uvm_channel_end_push ---- *)
\* the queued value left as it is
new_tracking_value_NoIncrement(c) == queued_value[c] % ValueMod

\* the payload one ahead of the tracking value
new_payload_OneAhead(tracking_value) == (tracking_value + 1) % PayloadMod

\* cpu_put left where it is
new_cpu_put_NoAdvance(c) == cpu_put[c]

\* line 309: ++channel->tracking_sem.queued_value
new_tracking_value(c) == (queued_value[c] + 1) % ValueMod

\* line 310: the payload the release command carries, (NvU32)new_tracking_value
new_payload(tracking_value) == tracking_value % PayloadMod

\* line 319
new_cpu_put(c) == (cpu_put[c] + 1) % N

(* ---- uvm_channel_get_status ---- *)
\* the status without the look at the ECC error notifier (lines 415-416)
uvm_channel_get_status_NoEcc(c) ==
    IF errorNotifier[c] = 0 THEN NV_OK ELSE NV_ERR_RC_ERROR

uvm_channel_get_status(c) ==
    IF errorNotifier[c] = 0 THEN NV_OK
    ELSE IF ecc_enabled /\ ecc_error_notifier # 0 THEN NV_ERR_ECC_ERROR
    ELSE NV_ERR_RC_ERROR

\* uvm_global_set_fatal_error: the first error raised stays
uvm_global_set_fatal_error(status) ==
    IF global_fatal_error = NV_OK THEN status ELSE global_fatal_error

\* uvm_global_get_status: the fatal flag as it is now
uvm_global_get_status == global_fatal_error

(* ---- calls and returns of a thread ---- *)
CallUpdateProgress(th, max_to_complete, mode, cont) ==
    [th EXCEPT !.pc = "up_refresh", !.stack = <<cont>> \o @,
               !.max_to_complete = max_to_complete, !.mode = mode]

\* uvm_channel_update_progress
uvm_channel_update_progress(th, cont) ==
    CallUpdateProgress(th, DefaultMaxToComplete,
                       UVM_CHANNEL_UPDATE_MODE_COMPLETED, cont)

\* channel_update_progress_all
channel_update_progress_all(th, mode, cont) ==
    CallUpdateProgress(th, N, mode, cont)

CallCheckErrors(th, cont) ==
    [th EXCEPT !.pc = "ce_status", !.stack = <<cont>> \o @]

\* line 145 with the count of the last channel for the sum
manager_pending_total_Last(sum, val) == val

\* line 145: pending_gpfifos += uvm_channel_update_progress(channel)
manager_pending_total(sum, val) == sum + val

\* uvm_channel_manager_update_progress, lines 136-149: the channels are
\* updated one after the other, from the first, the counts summed up
uvm_channel_manager_update_progress(th, cont) ==
    uvm_channel_update_progress([th EXCEPT !.channel = 0, !.pending_gpfifos = 0],
                                cont)

\* uvm_channel_manager_check_errors returns val: to its caller, or to the
\* loop of uvm_channel_manager_wait, line 246, which tests line 244 next
ManagerCheckErrorsReturn(th, val) ==
    IF th.stack = <<>>
    THEN [th EXCEPT !.pc = "done", !.status = val]
    ELSE uvm_channel_manager_update_progress(
             [th EXCEPT !.stack = Tail(@), !.status = val], "mup_loop")

\* the callee returns val; the caller goes on from the continuation it left
ReturnTo(th, val) ==
    LET cont == Head(th.stack)
        th1 == [th EXCEPT !.stack = Tail(@)]
    IN  CASE cont = "reserve_loop" ->
                 \* lines 369 and 375: the returned count is ignored
                 [th1 EXCEPT !.pc = "reserve_loop", !.pending_gpfifos = 0]
          [] cont = "reserve_status" ->
                 \* line 374 then the call of line 375
                 uvm_channel_update_progress([th1 EXCEPT !.status = val],
                                             "reserve_loop")
          [] cont = "first_pending" ->
                 \* lines 386-389
                 IF val = 0
                 THEN [th1 EXCEPT !.pc = "ce_set_fatal", !.fatal_entry = NULL,
                                  !.pending_gpfifos = 0]
                 ELSE [th1 EXCEPT !.pc = "fpe_lock", !.pending_gpfifos = 0]
          [] cont = "update_progress_done" ->
                 [th1 EXCEPT !.pc = "done", !.pending_gpfifos = val]
          [] cont = "check_errors_done" ->
                 [th1 EXCEPT !.pc = "done", !.status = val]
          [] cont = "pool_claim" ->
                 \* line 197: the returned count is ignored
                 [th1 EXCEPT !.pc = "pool_claim", !.pending_gpfifos = 0,
                             !.updated = @ \union {th1.channel}]
          [] cont = "pool_status" ->
                 \* lines 204-208: an error is returned, else the next channel
                 \* of the pool, the first one again after the last
                 IF val # NV_OK
                 THEN [th1 EXCEPT !.pc = "done", !.status = val]
                 ELSE uvm_channel_update_progress(
                          [th1 EXCEPT !.channel = (@ + 1) % NumChannels,
                                      !.updated = IF th1.channel + 1 \in Channels
                                                  THEN @ ELSE {}],
                          "pool_claim")
          [] cont = "destroy_done" ->
                 \* line 496: the returned count is ignored
                 [th1 EXCEPT !.pc = "done", !.pending_gpfifos = 0]
          [] cont = "mce_next" ->
                 \* lines 462-466: an error ends the loops, else the next channel
                 IF val # NV_OK \/ th1.channel + 1 \notin Channels
                 THEN ManagerCheckErrorsReturn(th1, val)
                 ELSE CallCheckErrors([th1 EXCEPT !.channel = @ + 1], "mce_next")
          [] cont \in {"mup_first", "mup_loop"} ->
                 \* lines 142-146: the count is added, then the next channel;
                 \* after the last one the sum is returned to line 240 or 244
                 LET sum == manager_pending_total(th1.pending_gpfifos, val)
                     th2 == [th1 EXCEPT !.pending_gpfifos = sum]
                 IN  IF th1.channel + 1 \in Channels
                     THEN uvm_channel_update_progress(
                              [th2 EXCEPT !.channel = @ + 1], cont)
                     ELSE IF cont = "mup_first"
                     THEN \* lines 240-241, and line 244 for the first time
                          IF sum = 0
                          THEN [th2 EXCEPT !.pc = "mce_global"]
                          ELSE uvm_channel_manager_update_progress(th2, "mup_loop")
                     ELSE \* lines 244-249
                          IF sum > 0 /\ th2.status = NV_OK
                          THEN [th2 EXCEPT !.pc = "mce_global",
                                           !.stack = <<"wait_loop">> \o @]
                          ELSE [th2 EXCEPT !.pc = "done"]

SetThread(t, th) == thread' = [thread EXCEPT ![t] = th]

(* ---- the operations a client starts ---- *)
\* the channels whose error notifier is nonzero
FaultedChannels == {c \in Channels : errorNotifier[c] # 0}

\* threads between the call of uvm_channel_reserve(c) and its return
Reserving(c) ==
    {t \in Threads : thread[t].op = "reserve" /\ thread[t].channel = c
                     /\ thread[t].pc # "done"}

\* a client calls uvm_channel_reserve(c)
ReserveCall(t, c) ==
    /\ thread[t].pc = "idle"
    /\ queued_value[c] + current_pushes_count[c] + Cardinality(Reserving(c)) < MaxPushes
    /\ SetThread(t, [IdleThread EXCEPT !.pc = "reserve_fast", !.op = "reserve",
                                       !.channel = c])
    /\ UNCHANGED <<lock, ringVars, gpuVars, completed_value, global_fatal_error>>

\* a client calls uvm_channel_update_progress(c)
UpdateProgressCall(t, c) ==
    /\ thread[t].pc = "idle"
    /\ SetThread(t, uvm_channel_update_progress(
                        [IdleThread EXCEPT !.op = "update_progress", !.channel = c],
                        "update_progress_done"))
    /\ UNCHANGED <<lock, ringVars, gpuVars, completed_value, global_fatal_error>>

\* a client calls uvm_channel_check_errors(c)
CheckErrorsCall(t, c) ==
    /\ thread[t].pc = "idle"
    /\ SetThread(t, CallCheckErrors(
                        [IdleThread EXCEPT !.op = "check_errors", !.channel = c],
                        "check_errors_done"))
    /\ UNCHANGED <<lock, ringVars, gpuVars, completed_value, global_fatal_error>>

(* ---- try_claim_channel, as uvm_channel_reserve calls it ---- *)
\* the fast path claiming only on a channel without an error
ReserveFast_ChecksErrors(t) ==
    LET th == thread[t]
        c == th.channel
        claimed == channel_is_available(c) /\ uvm_channel_get_status(c) = NV_OK
    IN  /\ th.pc = "reserve_fast"
        /\ current_pushes_count' =
               [current_pushes_count EXCEPT ![c] = IF claimed THEN @ + 1 ELSE @]
        /\ SetThread(t, IF claimed
                        THEN [th EXCEPT !.pc = "done", !.claimed = TRUE]
                        ELSE uvm_channel_update_progress(
                                 [th EXCEPT !.claimed = FALSE], "reserve_loop"))
        /\ lock' = lock \ {t}
        /\ UNCHANGED <<cpu_put, gpu_get, queued_value, gpfifo_entries,
                       available_push_infos, gpFifoEntries, gpu_put, pushbuffer,
                       gpuVars, completed_value, global_fatal_error>>

\* the fast path going to the loop of line 372 without the call of line 369
ReserveFast_NoProgress(t) ==
    LET th == thread[t]
        c == th.channel
        claimed == channel_is_available(c)
    IN  /\ th.pc = "reserve_fast"
        /\ current_pushes_count' =
               [current_pushes_count EXCEPT ![c] = IF claimed THEN @ + 1 ELSE @]
        /\ SetThread(t, IF claimed
                        THEN [th EXCEPT !.pc = "done", !.claimed = TRUE]
                        ELSE [th EXCEPT !.pc = "reserve_loop", !.claimed = FALSE])
        /\ lock' = lock \ {t}
        /\ UNCHANGED <<cpu_put, gpu_get, queued_value, gpfifo_entries,
                       available_push_infos, gpFifoEntries, gpu_put, pushbuffer,
                       gpuVars, completed_value, global_fatal_error>>

\* line 366: the fast path
ReserveFast(t) ==
    LET th == thread[t]
        c == th.channel
        claimed == channel_is_available(c)
    IN  /\ th.pc = "reserve_fast"
        /\ current_pushes_count' =
               [current_pushes_count EXCEPT ![c] = IF claimed THEN @ + 1 ELSE @]
        /\ SetThread(t, IF claimed
                        THEN [th EXCEPT !.pc = "done", !.claimed = TRUE]
                        ELSE uvm_channel_update_progress(
                                 [th EXCEPT !.claimed = FALSE], "reserve_loop"))
        /\ lock' = lock \ {t}
        /\ UNCHANGED <<cpu_put, gpu_get, queued_value, gpfifo_entries,
                       available_push_infos, gpFifoEntries, gpu_put, pushbuffer,
                       gpuVars, completed_value, global_fatal_error>>

\* the loop of line 372 never testing status
ReserveLoop_IgnoresStatus(t) ==
    LET th == thread[t]
        c == th.channel
        claimed == channel_is_available(c)
    IN  /\ th.pc = "reserve_loop"
        /\ current_pushes_count' =
               [current_pushes_count EXCEPT ![c] = IF claimed THEN @ + 1 ELSE @]
        /\ SetThread(t, IF claimed
                        THEN [th EXCEPT !.pc = "done", !.claimed = TRUE]
                        ELSE CallCheckErrors([th EXCEPT !.claimed = FALSE],
                                             "reserve_status"))
        /\ lock' = lock \ {t}
        /\ UNCHANGED <<cpu_put, gpu_get, queued_value, gpfifo_entries,
                       available_push_infos, gpFifoEntries, gpu_put, pushbuffer,
                       gpuVars, completed_value, global_fatal_error>>

\* line 372: the loop condition, try_claim_channel first and then the status
ReserveLoop(t) ==
    LET th == thread[t]
        c == th.channel
        claimed == channel_is_available(c)
    IN  /\ th.pc = "reserve_loop"
        /\ current_pushes_count' =
               [current_pushes_count EXCEPT ![c] = IF claimed THEN @ + 1 ELSE @]
        /\ SetThread(t, IF claimed
                        THEN [th EXCEPT !.pc = "done", !.claimed = TRUE]
                        ELSE IF th.status # NV_OK
                        THEN [th EXCEPT !.pc = "done", !.claimed = FALSE]
                        ELSE CallCheckErrors([th EXCEPT !.claimed = FALSE],
                                             "reserve_status"))
        /\ lock' = lock \ {t}
        /\ UNCHANGED <<cpu_put, gpu_get, queued_value, gpfifo_entries,
                       available_push_infos, gpFifoEntries, gpu_put, pushbuffer,
                       gpuVars, completed_value, global_fatal_error>>

(* ---- channel_reserve_in_pool ---- *)
RECURSIVE GrantedIn(_)
\* reservations granted so far on the channels of the set cs
GrantedIn(cs) ==
    IF cs = {} THEN 0
    ELSE LET c == CHOOSE x \in cs : TRUE
         IN  queued_value[c] + current_pushes_count[c] + GrantedIn(cs \ {c})

\* threads between the call of a reservation and its return
ReservingInPool ==
    {t \in Threads : thread[t].op \in {"reserve", "reserve_in_pool"}
                     /\ thread[t].pc # "done"}

\* reservations on the pool before the clients stop reserving: one more than
\* its rings hold
MaxPoolPushes == NumChannels * (N - 1) + 1

\* channel_reserve_in_pool beginning its first scan at the last channel
PoolReserveCall_FromLast(t) ==
    /\ thread[t].pc = "idle"
    /\ GrantedIn(Channels) + Cardinality(ReservingInPool) < MaxPoolPushes
    /\ SetThread(t, [IdleThread EXCEPT !.pc = "pool_scan", !.op = "reserve_in_pool",
                                       !.channel = NumChannels - 1])
    /\ UNCHANGED <<lock, ringVars, gpuVars, completed_value, global_fatal_error>>

\* a client calls channel_reserve_in_pool (through uvm_channel_reserve_type
\* or uvm_channel_reserve_gpu_to_gpu)
PoolReserveCall(t) ==
    /\ thread[t].pc = "idle"
    /\ GrantedIn(Channels) + Cardinality(ReservingInPool) < MaxPoolPushes
    /\ SetThread(t, [IdleThread EXCEPT !.pc = "pool_scan", !.op = "reserve_in_pool",
                                       !.channel = 0])
    /\ UNCHANGED <<lock, ringVars, gpuVars, completed_value, global_fatal_error>>

\* the first scan going on to the claims of the loop without the call of
\* line 197
PoolScan_NoProgress(t) ==
    LET th == thread[t]
        c == th.channel
        claimed == channel_is_available(c)
    IN  /\ th.pc = "pool_scan"
        /\ current_pushes_count' =
               [current_pushes_count EXCEPT ![c] = IF claimed THEN @ + 1 ELSE @]
        /\ SetThread(t, IF claimed
                        THEN [th EXCEPT !.pc = "done", !.claimed = TRUE]
                        ELSE IF c + 1 \in Channels
                        THEN [th EXCEPT !.channel = c + 1]
                        ELSE [th EXCEPT !.channel = 0, !.pc = "pool_claim",
                                        !.updated = {0}])
        /\ lock' = lock \ {t}
        /\ UNCHANGED <<cpu_put, gpu_get, queued_value, gpfifo_entries,
                       available_push_infos, gpFifoEntries, gpu_put, pushbuffer,
                       gpuVars, completed_value, global_fatal_error>>

\* a client calls uvm_channel_reserve_gpu_to_gpu for the peer dst_gpu_index,
\* lines 221-233; Channels stand for the channels of the pool it chooses
ReserveGpuToGpuCall(t, dst_gpu_index) ==
    /\ thread[t].pc = "idle"
    /\ manager.pc = "created"
    /\ GrantedIn(Channels) + Cardinality(ReservingInPool) < MaxPoolPushes
    /\ SetThread(t, [IdleThread EXCEPT !.pc = "pool_scan", !.op = "reserve_in_pool",
                                       !.channel = 0,
                                       !.pool = gpu_to_gpu_pool(manager, dst_gpu_index)])
    /\ UNCHANGED <<lock, ringVars, gpuVars, completed_value, global_fatal_error>>

\* lines 184-190: the first scan, try_claim_channel on one channel after the
\* other; lines 192-197 when the last one was denied
PoolScan(t) ==
    LET th == thread[t]
        c == th.channel
        claimed == channel_is_available(c)
    IN  /\ th.pc = "pool_scan"
        /\ current_pushes_count' =
               [current_pushes_count EXCEPT ![c] = IF claimed THEN @ + 1 ELSE @]
        /\ SetThread(t, IF claimed
                        THEN [th EXCEPT !.pc = "done", !.claimed = TRUE]
                        ELSE IF c + 1 \in Channels
                        THEN [th EXCEPT !.channel = c + 1]
                        ELSE uvm_channel_update_progress(
                                 [th EXCEPT !.channel = 0], "pool_claim"))
        /\ lock' = lock \ {t}
        /\ UNCHANGED <<cpu_put, gpu_get, queued_value, gpfifo_entries,
                       available_push_infos, gpFifoEntries, gpu_put, pushbuffer,
                       gpuVars, completed_value, global_fatal_error>>

\* lines 199-204: try_claim_channel after update_progress, then check_errors
PoolClaim(t) ==
    LET th == thread[t]
        c == th.channel
        claimed == channel_is_available(c)
    IN  /\ th.pc = "pool_claim"
        /\ current_pushes_count' =
               [current_pushes_count EXCEPT ![c] = IF claimed THEN @ + 1 ELSE @]
        /\ SetThread(t, IF claimed
                        THEN [th EXCEPT !.pc = "done", !.claimed = TRUE]
                        ELSE CallCheckErrors(th, "pool_status"))
        /\ lock' = lock \ {t}
        /\ UNCHANGED <<cpu_put, gpu_get, queued_value, gpfifo_entries,
                       available_push_infos, gpFifoEntries, gpu_put, pushbuffer,
                       gpuVars, completed_value, global_fatal_error>>

(* ---- uvm_channel_update_progress_with_max ---- *)
\* line 85: the completed value is refreshed, outside the pool lock
UpdateProgressRefresh(t) ==
    LET th == thread[t]
        c == th.channel
        v == uvm_channel_update_completed_value(c)
    IN  /\ th.pc = "up_refresh"
        /\ completed_value' = [completed_value EXCEPT ![c] = v]
        /\ SetThread(t, [th EXCEPT !.pc = "up_walk", !.completed_value = v])
        /\ UNCHANGED <<lock, ringVars, gpuVars, global_fatal_error>>

\* lines 87-113: the walk under the pool lock, then the pending count
UpdateProgressWalk(t) ==
    LET th == thread[t]
        c == th.channel
        put == cpu_put[c]
        st == ProgressLoop(c, [gpu_get |-> gpu_get[c], completed_count |-> 0,
                               available |-> available_push_infos[c],
                               marked |-> <<>>],
                           put, th.completed_value, th.max_to_complete, th.mode)
    IN  /\ th.pc = "up_walk"
        /\ gpu_get' = [gpu_get EXCEPT ![c] = st.gpu_get]
        /\ available_push_infos' = [available_push_infos EXCEPT ![c] = st.available]
        /\ pushbuffer' = [pushbuffer EXCEPT ![c].mark_completed = @ \o st.marked]
        /\ SetThread(t, ReturnTo([th EXCEPT !.completed_value = 0,
                                            !.max_to_complete = 0,
                                            !.mode = UVM_CHANNEL_UPDATE_MODE_COMPLETED],
                                 PendingGpfifos(put, st.gpu_get)))
        /\ lock' = lock \ {t}
        /\ UNCHANGED <<cpu_put, current_pushes_count, queued_value, gpfifo_entries,
                       gpFifoEntries, gpu_put, gpuVars, completed_value,
                       global_fatal_error>>

(* ---- uvm_channel_check_errors ---- *)
\* lines 431-440: the status is read; an error goes on to the fatal entry
CheckErrorsStatus(t) ==
    LET th == thread[t]
        c == th.channel
        status == uvm_channel_get_status(c)
    IN  /\ th.pc = "ce_status"
        /\ SetThread(t, IF status = NV_OK
                        THEN ReturnTo(th, NV_OK)
                        ELSE channel_update_progress_all(
                                 [th EXCEPT !.status = status],
                                 UVM_CHANNEL_UPDATE_MODE_COMPLETED, "first_pending"))
        /\ UNCHANGED <<lock, ringVars, gpuVars, completed_value, global_fatal_error>>

\* the look at the ring taking the newest published slot, the one before
\* cpu_put, for the oldest
FirstPendingEntry_Newest(t) ==
    LET th == thread[t]
        c == th.channel
    IN  /\ th.pc = "fpe_lock"
        /\ SetThread(t, [th EXCEPT !.pc = "ce_set_fatal",
                            !.fatal_entry = IF gpu_get[c] # cpu_put[c]
                                            THEN (cpu_put[c] + N - 1) % N ELSE NULL])
        /\ lock' = lock \ {t}
        /\ UNCHANGED <<ringVars, gpuVars, completed_value, global_fatal_error>>

\* lines 391-396: uvm_channel_get_first_pending_entry looks at the ring
FirstPendingEntry(t) ==
    LET th == thread[t]
        c == th.channel
    IN  /\ th.pc = "fpe_lock"
        /\ SetThread(t, [th EXCEPT !.pc = "ce_set_fatal",
                            !.fatal_entry = IF gpu_get[c] # cpu_put[c]
                                            THEN gpu_get[c] ELSE NULL])
        /\ lock' = lock \ {t}
        /\ UNCHANGED <<ringVars, gpuVars, completed_value, global_fatal_error>>

\* the end of check_errors acknowledging the error in the notifier
CheckErrorsSetFatal_ClearsNotifier(t) ==
    LET th == thread[t]
    IN  /\ th.pc = "ce_set_fatal"
        /\ global_fatal_error' = uvm_global_set_fatal_error(th.status)
        /\ errorNotifier' = [errorNotifier EXCEPT ![th.channel] = 0]
        /\ SetThread(t, ReturnTo(th, th.status))
        /\ UNCHANGED <<lock, ringVars, hw_get, sem_payload, ecc_error_notifier,
                       confVars, completed_value>>

\* the end of check_errors without the call of line 447
CheckErrorsSetFatal_NoRaise(t) ==
    LET th == thread[t]
    IN  /\ th.pc = "ce_set_fatal"
        /\ SetThread(t, ReturnTo(th, th.status))
        /\ UNCHANGED <<lock, ringVars, gpuVars, completed_value, global_fatal_error>>

\* lines 447-448: the fatal flag is raised and the status returned
CheckErrorsSetFatal(t) ==
    LET th == thread[t]
    IN  /\ th.pc = "ce_set_fatal"
        /\ global_fatal_error' = uvm_global_set_fatal_error(th.status)
        /\ SetThread(t, ReturnTo(th, th.status))
        /\ UNCHANGED <<lock, ringVars, gpuVars, completed_value>>

(* ---- uvm_channel_manager_check_errors ---- *)
\* a client calls uvm_channel_manager_check_errors
ManagerCheckErrorsCall(t) ==
    /\ thread[t].pc = "idle"
    /\ SetThread(t, [IdleThread EXCEPT !.pc = "mce_global",
                                       !.op = "manager_check_errors"])
    /\ UNCHANGED <<lock, ringVars, gpuVars, completed_value, global_fatal_error>>

\* lines 454-457: a raised fatal flag is returned at once; lines 459-463:
\* else the channels are checked one after the other, from the first
ManagerCheckErrorsGlobal(t) ==
    LET th == thread[t]
        status == uvm_global_get_status
    IN  /\ th.pc = "mce_global"
        /\ SetThread(t, IF status # NV_OK
                        THEN ManagerCheckErrorsReturn(th, status)
                        ELSE CallCheckErrors([th EXCEPT !.channel = 0], "mce_next"))
        /\ UNCHANGED <<lock, ringVars, gpuVars, completed_value, global_fatal_error>>

(* ---- uvm_channel_begin_push ---- *)
\* lines 278-286, with channel_get_available_push_info_index (252-266)
BeginPush(t) ==
    LET th == thread[t]
        c == th.channel
    IN  /\ th.pc = "begin_push"
        /\ \E pushbuffer_ok \in BOOLEAN :
              IF ~pushbuffer_ok
              THEN /\ SetThread(t, [th EXCEPT !.pc = "done", !.op = "begin_push",
                                              !.status = NV_ERR_NO_MEMORY])
                   /\ UNCHANGED available_push_infos
              ELSE IF available_push_infos[c] = <<>>
              THEN /\ SetThread(t, [th EXCEPT !.pc = "assert_failed",
                                              !.op = "begin_push"])
                   /\ UNCHANGED available_push_infos
              ELSE LET got == channel_get_available_push_info_index(c)
                   IN  /\ SetThread(t, [th EXCEPT !.pc = "end_push", !.op = "push",
                                                   !.push_info_index = got.index])
                       /\ available_push_infos' =
                              [available_push_infos EXCEPT ![c] = got.available]
        /\ lock' = lock \ {t}
        /\ UNCHANGED <<cpu_put, gpu_get, current_pushes_count, queued_value,
                       gpfifo_entries, gpFifoEntries, gpu_put, pushbuffer, gpuVars,
                       completed_value, global_fatal_error>>

(* ---- uvm_channel_end_push ---- *)
\* lines 307-358
EndPush(t) ==
    LET th == thread[t]
        c == th.channel
        value == new_tracking_value(c)
        put == cpu_put[c]
    IN  /\ th.pc = "end_push"
        /\ queued_value' = [queued_value EXCEPT ![c] = value]
        /\ gpfifo_entries' = [gpfifo_entries EXCEPT ![c][put] =
               [tracking_semaphore_value |-> value,
                push_info |-> th.push_info_index]]
        /\ current_pushes_count' = [current_pushes_count EXCEPT ![c] = @ - 1]
        /\ gpFifoEntries' = [gpFifoEntries EXCEPT ![c][put] = new_payload(value)]
        /\ cpu_put' = [cpu_put EXCEPT ![c] = new_cpu_put(c)]
        /\ gpu_put' = [gpu_put EXCEPT ![c] = new_cpu_put(c)]
        /\ pushbuffer' = [pushbuffer EXCEPT ![c].end_push =
               Append(@, [slot |-> put, value |-> value])]
        /\ SetThread(t, IdleThread)
        /\ lock' = lock \ {t}
        /\ UNCHANGED <<gpu_get, available_push_infos, gpuVars, completed_value,
                       global_fatal_error>>

(* ---- the caller of a finished call ---- *)
\* a granted reservation is followed by begin_push; anything else ends there
Continue(t) ==
    LET th == thread[t]
    IN  /\ th.pc = "done"
        /\ SetThread(t, IF th.op \in {"reserve", "reserve_in_pool"} /\ th.status = NV_OK
                        THEN [IdleThread EXCEPT !.pc = "begin_push", !.op = "begin_push",
                                                !.channel = th.channel]
                        ELSE IdleThread)
        /\ UNCHANGED <<lock, ringVars, gpuVars, completed_value, global_fatal_error>>

(* ---- the GPU ---- *)
\* the GPU executes the next published GP-entry and releases its payload
GpuExecute(c) ==
    /\ hw_get[c] # gpu_put[c]
    /\ sem_payload' = [sem_payload EXCEPT ![c] = gpFifoEntries[c][hw_get[c]]]
    /\ hw_get' = [hw_get EXCEPT ![c] = (@ + 1) % N]
    /\ UNCHANGED <<lock, ringVars, errorNotifier, ecc_error_notifier, confVars,
                   completed_value, global_fatal_error, thread>>

\* the GPU or RM reports a channel error in the error notifier
GpuFault(c) ==
    /\ errorNotifier[c] = 0
    /\ errorNotifier' = [errorNotifier EXCEPT ![c] = 1]
    /\ UNCHANGED <<lock, ringVars, hw_get, sem_payload, ecc_error_notifier,
                   confVars, completed_value, global_fatal_error, thread>>

\* a channel error reported while no thread is between the call of a
\* reservation and the use of its result, so that every reservation starts
\* and ends either before the error or after it
GpuFaultIdle(c) ==
    /\ \A t \in Threads : thread[t].op \notin {"reserve", "reserve_in_pool"}
    /\ GpuFault(c)

\* the GPU reports an ECC error
EccError ==
    /\ ecc_enabled
    /\ ecc_error_notifier = 0
    /\ ecc_error_notifier' = 1
    /\ UNCHANGED <<lock, ringVars, hw_get, sem_payload, errorNotifier, confVars,
                   completed_value, global_fatal_error, thread>>

\* the ring of one channel under contention: reservation, pushes, progress
\* updates, and the GPU that executes the pushes or faults the channel
Next ==
    \/ \E t \in Threads, c \in RingChannels : ReserveCall(t, c)
    \/ \E t \in Threads, c \in RingChannels : UpdateProgressCall(t, c)
    \/ \E t \in Threads : ReserveFast(t)
    \/ \E t \in Threads : ReserveLoop(t)
    \/ \E t \in Threads : UpdateProgressRefresh(t)
    \/ \E t \in Threads : UpdateProgressWalk(t)
    \/ \E t \in Threads : CheckErrorsStatus(t)
    \/ \E t \in Threads : FirstPendingEntry(t)
    \/ \E t \in Threads : CheckErrorsSetFatal(t)
    \/ \E t \in Threads : BeginPush(t)
    \/ \E t \in Threads : EndPush(t)
    \/ \E t \in Threads : Continue(t)
    \/ \E c \in RingChannels : GpuExecute(c)
    \/ \E c \in RingChannels : GpuFault(c)

Spec == Init /\ [][Next]_vars

\* the threads that reserve in SpecPool, from the pool or on a channel of
\* their choice
PoolReservers == {1}

\* reservation from a pool of channels, any of which may fault
NextPool ==
    \/ \E t \in PoolReservers : PoolReserveCall(t)
    \/ \E t \in PoolReservers, c \in Channels : ReserveCall(t, c)
    \/ \E t \in Threads : PoolScan(t)
    \/ \E t \in Threads : PoolClaim(t)
    \/ \E t \in Threads : ReserveFast(t)
    \/ \E t \in Threads : ReserveLoop(t)
    \/ \E t \in Threads : UpdateProgressRefresh(t)
    \/ \E t \in Threads : UpdateProgressWalk(t)
    \/ \E t \in Threads : CheckErrorsStatus(t)
    \/ \E t \in Threads : FirstPendingEntry(t)
    \/ \E t \in Threads : CheckErrorsSetFatal(t)
    \/ \E t \in Threads : BeginPush(t)
    \/ \E t \in Threads : EndPush(t)
    \/ \E t \in Threads : Continue(t)
    \/ \E c \in Channels : GpuExecute(c)
    \/ \E c \in Channels : GpuFaultIdle(c)

SpecPool == Init /\ [][NextPool]_vars

\* the threads that push in SpecErrors; the other threads only check for
\* errors (a pushing thread checks too, inside uvm_channel_reserve)
ErrorPushers == {1}

\* error handling: one thread pushes on a channel while the channels of the
\* pool fault, the GPU reports ECC errors, and threads check for errors
NextErrors ==
    \/ \E t \in ErrorPushers, c \in RingChannels : ReserveCall(t, c)
    \/ \E t \in Threads \ ErrorPushers, c \in Channels : CheckErrorsCall(t, c)
    \/ \E t \in Threads \ ErrorPushers : ManagerCheckErrorsCall(t)
    \/ \E t \in Threads : ManagerCheckErrorsGlobal(t)
    \/ \E t \in Threads : ReserveFast(t)
    \/ \E t \in Threads : ReserveLoop(t)
    \/ \E t \in Threads : UpdateProgressRefresh(t)
    \/ \E t \in Threads : UpdateProgressWalk(t)
    \/ \E t \in Threads : CheckErrorsStatus(t)
    \/ \E t \in Threads : FirstPendingEntry(t)
    \/ \E t \in Threads : CheckErrorsSetFatal(t)
    \/ \E t \in Threads : BeginPush(t)
    \/ \E t \in Threads : EndPush(t)
    \/ \E t \in Threads : Continue(t)
    \/ \E c \in RingChannels : GpuExecute(c)
    \/ \E c \in Channels : GpuFault(c)
    \/ EccError

\* a GPU with or without ECC checking
InitErrors ==
    /\ ChannelsCreated
    /\ ecc_enabled \in BOOLEAN
    /\ ManagerCreated

SpecErrors == InitErrors /\ [][NextErrors]_vars

(***************************************************************************)
(* The pool lock, step by step: uvm_spin_lock is a step of its own, the    *)
(* code up to uvm_spin_unlock follows it, and uvm_channel_end_push is cut  *)
(* at the write of GPPUT.                                                  *)
(***************************************************************************)
\* the sections without line 87: the walk of update_progress never locks
LockedSections_WalkUnlocked ==
    {"reserve_fast", "reserve_loop", "pool_scan", "pool_claim",
     "fpe_lock", "get_push_info", "end_push"}

\* the positions of a thread whose next statement is uvm_spin_lock
\* (lines 166, 87, 391, 256 and 307)
LockedSections ==
    {"reserve_fast", "reserve_loop", "pool_scan", "pool_claim",
     "up_walk", "fpe_lock", "get_push_info", "end_push"}

\* thread t has taken the lock if its next statements are a locked section
HoldsLock(t) == thread[t].pc \in LockedSections => t \in lock

\* uvm_spin_lock(&channel->pool->lock): taken when no thread holds it
LockAcquire(t) ==
    /\ thread[t].pc \in LockedSections
    /\ t \notin lock
    /\ lock = {}
    /\ lock' = {t}
    /\ UNCHANGED <<ringVars, gpuVars, completed_value, global_fatal_error, thread>>

\* try_claim_channel (lines 166-173) at line 366
ReserveFastLocked(t) == HoldsLock(t) /\ ReserveFast(t)

\* try_claim_channel (lines 166-173) at line 372
ReserveLoopLocked(t) == HoldsLock(t) /\ ReserveLoop(t)

\* lines 87-113
UpdateProgressWalkLocked(t) == HoldsLock(t) /\ UpdateProgressWalk(t)

\* lines 391-398
FirstPendingEntryLocked(t) == HoldsLock(t) /\ FirstPendingEntry(t)

\* lines 278-284: uvm_pushbuffer_begin_push, before any lock is taken
BeginPushBuffer(t) ==
    LET th == thread[t]
    IN  /\ th.pc = "begin_push"
        /\ \E pushbuffer_ok \in BOOLEAN :
              SetThread(t, IF pushbuffer_ok
                           THEN [th EXCEPT !.pc = "get_push_info"]
                           ELSE [th EXCEPT !.pc = "done",
                                           !.status = NV_ERR_NO_MEMORY])
        /\ UNCHANGED <<lock, ringVars, gpuVars, completed_value, global_fatal_error>>

\* channel_get_available_push_info_index (lines 256-265), from line 284
GetPushInfo(t) ==
    LET th == thread[t]
        c == th.channel
    IN  /\ th.pc = "get_push_info"
        /\ HoldsLock(t)
        /\ IF available_push_infos[c] = <<>>
           THEN /\ SetThread(t, [th EXCEPT !.pc = "assert_failed"])
                /\ UNCHANGED available_push_infos
           ELSE LET got == channel_get_available_push_info_index(c)
                IN  /\ SetThread(t, [th EXCEPT !.pc = "end_push", !.op = "push",
                                                !.push_info_index = got.index])
                    /\ available_push_infos' =
                           [available_push_infos EXCEPT ![c] = got.available]
        /\ lock' = lock \ {t}
        /\ UNCHANGED <<cpu_put, gpu_get, current_pushes_count, queued_value,
                       gpfifo_entries, gpFifoEntries, gpu_put, pushbuffer, gpuVars,
                       completed_value, global_fatal_error>>

\* lines 309-342 followed by the unlock of line 350, the call of
\* uvm_pushbuffer_end_push left for after it
EndPushPublish_Unlocks(t) ==
    LET th == thread[t]
        c == th.channel
        value == new_tracking_value(c)
        put == cpu_put[c]
    IN  /\ th.pc = "end_push"
        /\ HoldsLock(t)
        /\ queued_value' = [queued_value EXCEPT ![c] = value]
        /\ gpfifo_entries' = [gpfifo_entries EXCEPT ![c][put] =
               [tracking_semaphore_value |-> value,
                push_info |-> th.push_info_index]]
        /\ current_pushes_count' = [current_pushes_count EXCEPT ![c] = @ - 1]
        /\ gpFifoEntries' = [gpFifoEntries EXCEPT ![c][put] = new_payload(value)]
        /\ cpu_put' = [cpu_put EXCEPT ![c] = new_cpu_put(c)]
        /\ gpu_put' = [gpu_put EXCEPT ![c] = new_cpu_put(c)]
        /\ SetThread(t, [th EXCEPT !.pc = "end_push_notify", !.entry = put,
                                   !.push_info_index = NULL])
        /\ lock' = lock \ {t}
        /\ UNCHANGED <<gpu_get, available_push_infos, pushbuffer, gpuVars,
                       completed_value, global_fatal_error>>

\* lines 309-342: the entry is filled in, cpu_put advanced and GPPUT written;
\* the lock stays held
EndPushPublish(t) ==
    LET th == thread[t]
        c == th.channel
        value == new_tracking_value(c)
        put == cpu_put[c]
    IN  /\ th.pc = "end_push"
        /\ HoldsLock(t)
        /\ queued_value' = [queued_value EXCEPT ![c] = value]
        /\ gpfifo_entries' = [gpfifo_entries EXCEPT ![c][put] =
               [tracking_semaphore_value |-> value,
                push_info |-> th.push_info_index]]
        /\ current_pushes_count' = [current_pushes_count EXCEPT ![c] = @ - 1]
        /\ gpFifoEntries' = [gpFifoEntries EXCEPT ![c][put] = new_payload(value)]
        /\ cpu_put' = [cpu_put EXCEPT ![c] = new_cpu_put(c)]
        /\ gpu_put' = [gpu_put EXCEPT ![c] = new_cpu_put(c)]
        /\ SetThread(t, [th EXCEPT !.pc = "end_push_notify", !.entry = put,
                                   !.push_info_index = NULL])
        /\ UNCHANGED <<lock, gpu_get, available_push_infos, pushbuffer, gpuVars,
                       completed_value, global_fatal_error>>

\* lines 344-358: uvm_pushbuffer_end_push, then the unlock
EndPushNotify(t) ==
    LET th == thread[t]
        c == th.channel
    IN  /\ th.pc = "end_push_notify"
        /\ pushbuffer' = [pushbuffer EXCEPT ![c].end_push =
               Append(@, [slot |-> th.entry,
                          value |-> gpfifo_entries[c][th.entry].tracking_semaphore_value])]
        /\ lock' = lock \ {t}
        /\ SetThread(t, IdleThread)
        /\ UNCHANGED <<cpu_put, gpu_get, current_pushes_count, queued_value,
                       gpfifo_entries, available_push_infos, gpFifoEntries, gpu_put,
                       gpuVars, completed_value, global_fatal_error>>

NextLock ==
    \/ \E t \in Threads, c \in RingChannels : ReserveCall(t, c)
    \/ \E t \in Threads, c \in RingChannels : UpdateProgressCall(t, c)
    \/ \E t \in Threads : LockAcquire(t)
    \/ \E t \in Threads : ReserveFastLocked(t)
    \/ \E t \in Threads : ReserveLoopLocked(t)
    \/ \E t \in Threads : UpdateProgressRefresh(t)
    \/ \E t \in Threads : UpdateProgressWalkLocked(t)
    \/ \E t \in Threads : CheckErrorsStatus(t)
    \/ \E t \in Threads : FirstPendingEntryLocked(t)
    \/ \E t \in Threads : CheckErrorsSetFatal(t)
    \/ \E t \in Threads : BeginPushBuffer(t)
    \/ \E t \in Threads : GetPushInfo(t)
    \/ \E t \in Threads : EndPushPublish(t)
    \/ \E t \in Threads : EndPushNotify(t)
    \/ \E t \in Threads : Continue(t)
    \/ \E c \in RingChannels : GpuExecute(c)
    \/ \E c \in RingChannels : GpuFault(c)

SpecLock == Init /\ [][NextLock]_vars

(***************************************************************************)
(* Progress on a channel without errors: one thread pushes, one thread     *)
(* polls with uvm_channel_update_progress, and the GPU executes every      *)
(* GP-entry that was published.                                            *)
(***************************************************************************)
\* the thread that pushes in SpecLive
LivePushers == {1}
\* the thread that polls in SpecLive
LivePollers == Threads \ LivePushers

NextLive ==
    \/ \E t \in LivePushers, c \in RingChannels : ReserveCall(t, c)
    \/ \E t \in LivePollers, c \in RingChannels : UpdateProgressCall(t, c)
    \/ \E t \in Threads : ReserveFast(t)
    \/ \E t \in Threads : ReserveLoop(t)
    \/ \E t \in Threads : UpdateProgressRefresh(t)
    \/ \E t \in Threads : UpdateProgressWalk(t)
    \/ \E t \in Threads : CheckErrorsStatus(t)
    \/ \E t \in Threads : BeginPush(t)
    \/ \E t \in Threads : EndPush(t)
    \/ \E t \in Threads : Continue(t)
    \/ \E c \in RingChannels : GpuExecute(c)

\* the GPU executes a published GP-entry sooner or later, and the polling
\* thread keeps calling uvm_channel_update_progress and runs each call to
\* its end
FairLive ==
    /\ \A c \in RingChannels : WF_vars(GpuExecute(c))
    /\ \A t \in LivePollers :
           /\ WF_vars(\E c \in RingChannels : UpdateProgressCall(t, c))
           /\ WF_vars(UpdateProgressRefresh(t))
           /\ WF_vars(UpdateProgressWalk(t))
           /\ WF_vars(Continue(t))

SpecLive == Init /\ [][NextLive]_vars /\ FairLive

(***************************************************************************)
(* Teardown of a channel: one thread pushes on the channel, and once it is *)
(* in no call the other thread destroys the channel with channel_destroy.  *)
(***************************************************************************)
\* the channels a thread is destroying or has destroyed
Destroyed ==
    {thread[t].channel : t \in {u \in Threads : thread[u].op = "channel_destroy"}}

\* channel_destroy walking in Completed mode instead of forcing all slots out
DestroyCall_CompletedMode(t, c) ==
    /\ \A u \in Threads : thread[u].pc = "idle"
    /\ SetThread(t, IF queued_value[c] > 0
                    THEN channel_update_progress_all(
                             [IdleThread EXCEPT !.op = "channel_destroy",
                                                !.channel = c],
                             UVM_CHANNEL_UPDATE_MODE_COMPLETED, "destroy_done")
                    ELSE [IdleThread EXCEPT !.pc = "done", !.op = "channel_destroy",
                                            !.channel = c])
    /\ UNCHANGED <<lock, ringVars, gpuVars, completed_value, global_fatal_error>>

\* lines 486-496: channel_destroy(c), called when no thread is in a call; a
\* channel that was ever pushed to has all its slots reclaimed, whatever the
\* GPU completed (the UVM_ASSERT of line 491 changes no state)
DestroyCall(t, c) ==
    /\ \A u \in Threads : thread[u].pc = "idle"
    /\ SetThread(t, IF queued_value[c] > 0
                    THEN channel_update_progress_all(
                             [IdleThread EXCEPT !.op = "channel_destroy",
                                                !.channel = c],
                             UVM_CHANNEL_UPDATE_MODE_FORCE_ALL, "destroy_done")
                    ELSE [IdleThread EXCEPT !.pc = "done", !.op = "channel_destroy",
                                            !.channel = c])
    /\ UNCHANGED <<lock, ringVars, gpuVars, completed_value, global_fatal_error>>

\* the thread that pushes in SpecDestroy; the other one destroys
DestroyPushers == {1}

\* a client calls uvm_channel_reserve(c) on a channel that exists
ReserveCallLive(t, c) ==
    /\ c \notin Destroyed
    /\ ReserveCall(t, c)

\* a client calls uvm_channel_update_progress(c) on a channel that exists
UpdateProgressCallLive(t, c) ==
    /\ c \notin Destroyed
    /\ UpdateProgressCall(t, c)

NextDestroy ==
    \/ \E t \in DestroyPushers, c \in RingChannels : ReserveCallLive(t, c)
    \/ \E t \in DestroyPushers, c \in RingChannels : UpdateProgressCallLive(t, c)
    \/ \E t \in Threads \ DestroyPushers, c \in RingChannels : DestroyCall(t, c)
    \/ \E t \in Threads : ReserveFast(t)
    \/ \E t \in Threads : ReserveLoop(t)
    \/ \E t \in Threads : UpdateProgressRefresh(t)
    \/ \E t \in Threads : UpdateProgressWalk(t)
    \/ \E t \in Threads : CheckErrorsStatus(t)
    \/ \E t \in Threads : BeginPush(t)
    \/ \E t \in Threads : EndPush(t)
    \/ \E t \in DestroyPushers : Continue(t)
    \/ \E c \in RingChannels : GpuExecute(c)

SpecDestroy == Init /\ [][NextDestroy]_vars

(***************************************************************************)
(* uvm_channel_manager_wait: one thread pushes on the channels of the      *)
(* manager; the other thread waits for the manager, and no push is         *)
(* reserved, begun or ended while it waits.                                *)
(***************************************************************************)
\* the threads inside uvm_channel_manager_wait, or back from it and not yet
\* gone on
Waiting == {t \in Threads : thread[t].op = "manager_wait"}

\* a client calls uvm_channel_manager_wait while no thread is in a call;
\* line 240: uvm_channel_manager_update_progress for the first time
ManagerWaitCall(t) ==
    /\ \A u \in Threads : thread[u].pc = "idle"
    /\ SetThread(t, uvm_channel_manager_update_progress(
                        [IdleThread EXCEPT !.op = "manager_wait"], "mup_first"))
    /\ UNCHANGED <<lock, ringVars, gpuVars, completed_value, global_fatal_error>>

\* a client calls uvm_channel_reserve(c) while no thread waits for the manager
ReserveCallNoWait(t, c) ==
    /\ Waiting = {}
    /\ ReserveCall(t, c)

\* the thread that pushes in SpecWait; the other one waits for the manager
WaitPushers == {1}

NextWait ==
    \/ \E t \in WaitPushers, c \in Channels : ReserveCallNoWait(t, c)
    \/ \E t \in Threads \ WaitPushers : ManagerWaitCall(t)
    \/ \E t \in Threads : ManagerCheckErrorsGlobal(t)
    \/ \E t \in Threads : ReserveFast(t)
    \/ \E t \in Threads : ReserveLoop(t)
    \/ \E t \in Threads : UpdateProgressRefresh(t)
    \/ \E t \in Threads : UpdateProgressWalk(t)
    \/ \E t \in Threads : CheckErrorsStatus(t)
    \/ \E t \in Threads : FirstPendingEntry(t)
    \/ \E t \in Threads : CheckErrorsSetFatal(t)
    \/ \E t \in Threads : BeginPush(t)
    \/ \E t \in Threads : EndPush(t)
    \/ \E t \in Threads : Continue(t)
    \/ \E c \in Channels : GpuExecute(c)
    \/ \E c \in RingChannels : GpuFault(c)

SpecWait == Init /\ [][NextWait]_vars

(***************************************************************************)
(* One thread issuing reserve, begin_push, end_push sequences on a channel *)
(* without errors, its pushbuffer never short of space, against a GPU that *)
(* executes every published GP-entry sooner or later.                      *)
(***************************************************************************)
\* the thread that pushes in SpecSequence
SequencePushers == {1}

\* uvm_channel_begin_push with uvm_pushbuffer_begin_push returning NV_OK
BeginPushOk(t) ==
    /\ BeginPush(t)
    /\ thread'[t].pc = "end_push"

\* the next uvm_channel_reserve(c) of the sequence, on the channel the
\* sequence began on
SequenceReserveCall(t, c) ==
    /\ \A d \in Channels \ {c} : queued_value[d] = 0
    /\ ReserveCall(t, c)

NextSequence ==
    \/ \E t \in SequencePushers, c \in Channels : SequenceReserveCall(t, c)
    \/ \E t \in SequencePushers : ReserveFast(t)
    \/ \E t \in SequencePushers : ReserveLoop(t)
    \/ \E t \in SequencePushers : UpdateProgressRefresh(t)
    \/ \E t \in SequencePushers : UpdateProgressWalk(t)
    \/ \E t \in SequencePushers : CheckErrorsStatus(t)
    \/ \E t \in SequencePushers : BeginPushOk(t)
    \/ \E t \in SequencePushers : EndPush(t)
    \/ \E t \in SequencePushers : Continue(t)
    \/ \E c \in Channels : GpuExecute(c)

\* the pushing thread is scheduled and runs every call to its end, issuing
\* the next sequence after the last; the GPU executes every published
\* GP-entry sooner or later, one at a time or several in a row
FairSequence ==
    /\ \A c \in Channels : WF_vars(GpuExecute(c))
    /\ \A t \in SequencePushers :
           /\ WF_vars(\E c \in Channels : SequenceReserveCall(t, c))
           /\ WF_vars(ReserveFast(t))
           /\ WF_vars(ReserveLoop(t))
           /\ WF_vars(UpdateProgressRefresh(t))
           /\ WF_vars(UpdateProgressWalk(t))
           /\ WF_vars(CheckErrorsStatus(t))
           /\ WF_vars(BeginPushOk(t))
           /\ WF_vars(EndPush(t))
           /\ WF_vars(Continue(t))

SpecSequence == Init /\ [][NextSequence]_vars /\ FairSequence

(***************************************************************************)
(* init_channel_manager_conf for every module parameter and GPU tried, and *)
(* uvm_channel_manager_create_common for every capability table tried.     *)
(***************************************************************************)
\* a manager just allocated, for any module parameters, on any GPU and build
InitConfiguration ==
    /\ ChannelsCreated
    /\ ecc_enabled = TRUE
    /\ module_params \in [uvm_channel_num_gpfifo_entries : ParamValues,
                          uvm_channel_gpfifo_loc : LocStrings,
                          uvm_channel_gpput_loc : LocStrings,
                          uvm_channel_pushbuffer_loc : LocStrings]
    /\ gpu \in [mem_info_size : {0, 1}, gpfifo_in_vidmem_supported : BOOLEAN,
                sysmem_link_nvlink_2 : BOOLEAN, NVCPU_IS_AARCH64 : BOOLEAN,
                uses_proxy_channel_pool : {FALSE}, ces_caps : {ExampleCaps}]
    /\ manager = AllocatedManager

NextConfiguration == InitConf

SpecConfiguration == InitConfiguration /\ [][NextConfiguration]_vars

\* a manager just allocated, for the default module parameters, on a GPU
\* with any table of copy engines, with or without a proxy pool
InitCopyEngines ==
    /\ ChannelsCreated
    /\ ecc_enabled = TRUE
    /\ module_params = DefaultParams
    /\ gpu \in {[DefaultGpu EXCEPT !.ces_caps = caps, !.uses_proxy_channel_pool = proxy] :
                    caps \in [CopyEngines -> CeProfiles] \union ExampleTables,
                    proxy \in BOOLEAN}
    /\ manager = AllocatedManager

\* channel_pool_create of a copy engine where nothing fails after the
\* allocation of line 689 (the failures of the channels are SpecTeardown's)
CreatePoolChannelsOk ==
    /\ CreatePool
    /\ manager'.channels_destroyed = <<>>

NextCopyEngines ==
    \/ InitConf
    \/ PickCopyEngines
    \/ CreatePoolChannelsOk
    \/ AssignPools
    \/ ManagerDestroy

SpecCopyEngines == InitCopyEngines /\ [][NextCopyEngines]_vars

(***************************************************************************)
(* One thread pushing on a channel whose GPU may stop executing at any     *)
(* point and may report a channel error or an ECC error: the thread is     *)
(* scheduled and runs each call to its end, the GPU owes nothing.          *)
(***************************************************************************)
\* the thread that pushes in SpecStuck
StuckPushers == {1}

NextStuck ==
    \/ \E t \in StuckPushers, c \in RingChannels : ReserveCall(t, c)
    \/ \E t \in StuckPushers : ReserveFast(t)
    \/ \E t \in StuckPushers : ReserveLoop(t)
    \/ \E t \in StuckPushers : UpdateProgressRefresh(t)
    \/ \E t \in StuckPushers : UpdateProgressWalk(t)
    \/ \E t \in StuckPushers : CheckErrorsStatus(t)
    \/ \E t \in StuckPushers : FirstPendingEntry(t)
    \/ \E t \in StuckPushers : CheckErrorsSetFatal(t)
    \/ \E t \in StuckPushers : BeginPushOk(t)
    \/ \E t \in StuckPushers : EndPush(t)
    \/ \E t \in StuckPushers : Continue(t)
    \/ \E c \in RingChannels : GpuExecute(c)
    \/ \E c \in RingChannels : GpuFault(c)
    \/ EccError

\* the thread inside uvm_channel_reserve is scheduled: each step of the
\* call, and of the calls it makes, is taken sooner or later
FairStuck ==
    \A t \in StuckPushers :
        /\ WF_vars(ReserveFast(t))
        /\ WF_vars(ReserveLoop(t))
        /\ WF_vars(UpdateProgressRefresh(t))
        /\ WF_vars(UpdateProgressWalk(t))
        /\ WF_vars(CheckErrorsStatus(t))
        /\ WF_vars(FirstPendingEntry(t))
        /\ WF_vars(CheckErrorsSetFatal(t))

SpecStuck == InitErrors /\ [][NextStuck]_vars /\ FairStuck

(***************************************************************************)
(* Pushes to peer GPUs: one thread reserves with                           *)
(* uvm_channel_reserve_gpu_to_gpu and pushes, while the copy engine of a   *)
(* peer is set, or set again, with uvm_channel_manager_set_p2p_ce. The     *)
(* pools have channels alike, and the channels of the model stand for      *)
(* those of the pool a call reserves from.                                 *)
(***************************************************************************)
\* the thread that pushes in SpecP2p
P2pPushers == {1}

NextP2p ==
    \/ \E peer \in PeerGpus, ce \in CopyEngines : SetP2pCe(peer, ce)
    \/ \E t \in P2pPushers, dst \in PeerGpus : ReserveGpuToGpuCall(t, dst)
    \/ \E t \in P2pPushers : PoolScan(t)
    \/ \E t \in P2pPushers : PoolClaim(t)
    \/ \E t \in P2pPushers : UpdateProgressRefresh(t)
    \/ \E t \in P2pPushers : UpdateProgressWalk(t)
    \/ \E t \in P2pPushers : CheckErrorsStatus(t)
    \/ \E t \in P2pPushers : BeginPushOk(t)
    \/ \E t \in P2pPushers : EndPush(t)
    \/ \E t \in P2pPushers : Continue(t)
    \/ \E c \in Channels : GpuExecute(c)

SpecP2p == Init /\ [][NextP2p]_vars

(***************************************************************************)
(* The construction of the manager with every failure of a pool or of a    *)
(* channel on the way, and the teardown that follows a failure.            *)
(***************************************************************************)
\* the tables of copy engines of SpecTeardown
TeardownTables ==
    [CopyEngines -> {CapUnsupported, CapSysmem, CapSysmemNvlink, CapP2p}]

InitTeardown ==
    /\ ChannelsCreated
    /\ ecc_enabled = TRUE
    /\ module_params = DefaultParams
    /\ gpu \in {[DefaultGpu EXCEPT !.ces_caps = caps, !.uses_proxy_channel_pool = proxy] :
                    caps \in TeardownTables, proxy \in BOOLEAN}
    /\ manager = AllocatedManager

NextTeardown ==
    \/ InitConf
    \/ PickCopyEngines
    \/ CreatePool
    \/ AssignPools
    \/ ManagerDestroy

SpecTeardown == InitTeardown /\ [][NextTeardown]_vars

(***************************************************************************)
(* The payload of the tracking semaphore around the wrap of its 32 bits:   *)
(* a channel whose semaphore has already counted SemaphoreBase pushes, all *)
(* of them completed, and two threads that hold a reservation on it.       *)
(***************************************************************************)
\* the channel of SpecPayload
PayloadChannel == 0

\* the tracking values the channel may have reached: any value from which
\* the pushes of the two threads and one payload period more stay below
\* 2^ValueBits
SemaphoreBases == 0 .. (ValueMod - PayloadMod - 3)

\* the channel after base completed pushes: the ring pointers have gone
\* round base times, the last slot executed carries the tracking value
\* base, and the semaphore word holds its payload
ChannelAfter(base) ==
    /\ cpu_put = [c \in Channels |-> IF c = PayloadChannel THEN base % N ELSE 0]
    /\ gpu_get = cpu_put
    /\ gpu_put = cpu_put
    /\ hw_get = cpu_put
    /\ current_pushes_count =
           [c \in Channels |-> IF c = PayloadChannel THEN Cardinality(Threads) ELSE 0]
    /\ queued_value = [c \in Channels |-> IF c = PayloadChannel THEN base ELSE 0]
    /\ completed_value = queued_value
    /\ gpfifo_entries = [c \in Channels |-> [i \in Slots |->
           [tracking_semaphore_value |->
                IF c = PayloadChannel /\ i = (base + N - 1) % N THEN base ELSE 0,
            push_info |-> NULL]]]
    /\ available_push_infos = [c \in Channels |-> [i \in 1 .. N |-> i - 1]]
    /\ gpFifoEntries = [c \in Channels |-> [i \in Slots |->
           IF c = PayloadChannel /\ i = (base + N - 1) % N
           THEN base % PayloadMod ELSE 0]]
    /\ sem_payload = [c \in Channels |->
           IF c = PayloadChannel THEN base % PayloadMod ELSE 0]
    /\ errorNotifier = [c \in Channels |-> 0]
    /\ ecc_error_notifier = 0
    /\ global_fatal_error = NV_OK
    /\ pushbuffer = [c \in Channels |-> [end_push |-> <<>>, mark_completed |-> <<>>]]
    /\ thread = [t \in Threads |->
           [IdleThread EXCEPT !.pc = "begin_push", !.op = "begin_push",
                              !.channel = PayloadChannel]]
    /\ lock = {}

InitPayload ==
    /\ \E base \in SemaphoreBases : ChannelAfter(base)
    /\ ecc_enabled = TRUE
    /\ ManagerCreated

\* the two pushes, the GPU that executes them, and progress updates of the
\* channel by a thread whose push has ended
NextPayload ==
    \/ \E t \in Threads : BeginPush(t)
    \/ \E t \in Threads : EndPush(t)
    \/ \E t \in Threads : Continue(t)
    \/ \E t \in Threads : UpdateProgressCall(t, PayloadChannel)
    \/ \E t \in Threads : UpdateProgressRefresh(t)
    \/ \E t \in Threads : UpdateProgressWalk(t)
    \/ GpuExecute(PayloadChannel)

SpecPayload == InitPayload /\ [][NextPayload]_vars

(***************************************************************************)
(* Properties                                                              *)
(***************************************************************************)
\* published slots not yet reclaimed: (cpu_put - gpu_get) mod N
Pending(c) == (cpu_put[c] - gpu_get[c]) % N

\* the slots of the ring range [gpu_get, cpu_put)
RingRange(c) == {(gpu_get[c] + i) % N : i \in 0 .. (Pending(c) - 1)}

\* thread t is at a try_claim_channel of uvm_channel_reserve and takes it
TryClaimStep(t) ==
    /\ thread[t].pc \in {"reserve_fast", "reserve_loop"}
    /\ thread'[t] # thread[t]

\* thread t takes the locked walk of update_progress
WalkStep(t) ==
    /\ thread[t].pc = "up_walk"
    /\ thread'[t] # thread[t]

\* thread t takes the locked section of end_push
EndPushStep(t) ==
    /\ thread[t].pc = "end_push"
    /\ thread'[t] # thread[t]

\* thread t was denied by its latest try_claim_channel and is updating progress
Denied(t) ==
    /\ thread[t].op = "reserve"
    /\ thread[t].pc = "up_refresh"
    /\ ~thread[t].claimed

\* C1: in every reachable state of every channel, reserved-but-unended
\* pushes plus published-but-unreclaimed slots are at most N - 1:
\* current_pushes_count + ((cpu_put - gpu_get) mod N) <= N - 1.
C1_Capacity ==
    \A c \in Channels : current_pushes_count[c] + Pending(c) <= N - 1

\* C1 witness: a full channel, with a reserved push and a published slot
C1_Witness ==
    \E c \in Channels :
        /\ current_pushes_count[c] >= 1
        /\ cpu_put[c] # gpu_get[c]
        /\ current_pushes_count[c] + Pending(c) = N - 1

\* C2: try_claim_channel grants iff (cpu_put + current_pushes_count + 1)
\* mod N # gpu_get; a grant adds exactly one to current_pushes_count and
\* leaves cpu_put and gpu_get alone; a denial changes no channel state.
C2_TryClaim ==
    [][\A t \in Threads :
          TryClaimStep(t) =>
              LET c == thread[t].channel
                  free == ((cpu_put[c] + current_pushes_count[c] + 1) % N) # gpu_get[c]
              IN  /\ thread'[t].claimed = free
                  /\ free => /\ current_pushes_count'[c] = current_pushes_count[c] + 1
                             /\ cpu_put' = cpu_put
                             /\ gpu_get' = gpu_get
                  /\ ~free => UNCHANGED <<ringVars, completed_value>>]_vars

\* C2 witness: one thread holds a granted claim while the other was denied
C2_Witness ==
    \E t, u \in Threads :
        /\ thread[t].op = "reserve" /\ thread[t].pc = "done" /\ thread[t].claimed
        /\ Denied(u)

\* C3: from an empty channel, with nothing reclaimed, exactly the first
\* N - 1 reservations are granted; a reservation is denied exactly while
\* the claims granted so far exceed the slots reclaimed so far by N - 1.
C3_Burst ==
    [][\A t \in Threads :
          TryClaimStep(t) =>
              LET c == thread[t].channel
                  granted == queued_value[c] + current_pushes_count[c]
                  reclaimed == Len(pushbuffer[c].mark_completed)
              IN  thread'[t].claimed <=> (granted - reclaimed < N - 1)]_vars

\* C3 witness: the N-th reservation is denied, the GPU having completed nothing
C3_Witness ==
    \E t \in Threads :
        LET c == thread[t].channel
        IN  /\ Denied(t)
            /\ queued_value[c] + current_pushes_count[c] = N - 1
            /\ pushbuffer[c].mark_completed = <<>>
            /\ hw_get[c] = 0 /\ sem_payload[c] = 0 /\ completed_value[c] = 0

\* no uvm_channel_reserve call is between its call and its return
NoReserveInProgress ==
    \A t \in Threads : ~(thread[t].op = "reserve" /\ thread[t].pc # "done")

\* C4 as stated: whenever no reserve call is part-way through its admission
\* decision, every channel has ((cpu_put + current_pushes_count) mod N) # gpu_get.
C4_Original ==
    NoReserveInProgress =>
        \A c \in Channels :
            ((cpu_put[c] + current_pushes_count[c]) % N) # gpu_get[c]

\* C4 as amended: whenever no reserve call is part-way through its admission
\* decision, ((cpu_put + current_pushes_count) mod N) = gpu_get holds of a
\* channel exactly when it has no reserved push and its ring is empty.
C4_Amended ==
    NoReserveInProgress =>
        \A c \in Channels :
            (((cpu_put[c] + current_pushes_count[c]) % N) = gpu_get[c])
                <=> (current_pushes_count[c] = 0 /\ cpu_put[c] = gpu_get[c])

\* C4 witness: admission is final and the channel is full
C4_Witness ==
    /\ NoReserveInProgress
    /\ \E c \in Channels :
           /\ current_pushes_count[c] >= 1
           /\ current_pushes_count[c] + Pending(c) = N - 1

\* C5 as stated: cpu_put # gpu_get implies that some slot of [gpu_get, cpu_put)
\* has a tracking value greater than the channel's completed value.
C5_Original ==
    \A c \in Channels :
        cpu_put[c] # gpu_get[c] =>
            \E i \in RingRange(c) :
                gpfifo_entries[c][i].tracking_semaphore_value > completed_value[c]

\* C5 as amended: when a walk of update_progress in Completed mode ends with
\* cpu_put # gpu_get before reaching max_to_complete, the slot at gpu_get has
\* a tracking value greater than the completed value the walk was given.
C5_Amended ==
    [][\A t \in Threads :
          (WalkStep(t) /\ thread[t].mode = UVM_CHANNEL_UPDATE_MODE_COMPLETED) =>
              LET c == thread[t].channel
                  reclaimed == Len(pushbuffer'[c].mark_completed)
                                   - Len(pushbuffer[c].mark_completed)
              IN  (gpu_get'[c] # cpu_put[c] /\ reclaimed < thread[t].max_to_complete)
                      => gpfifo_entries[c][gpu_get'[c]].tracking_semaphore_value
                             > thread[t].completed_value]_vars

\* C5 witness: an update_progress that reclaimed a slot and left one pending
C5_Witness ==
    \E t \in Threads :
        LET c == thread[t].channel
        IN  /\ thread[t].op = "update_progress" /\ thread[t].pc = "done"
            /\ thread[t].pending_gpfifos > 0
            /\ pushbuffer[c].mark_completed # <<>>
            /\ cpu_put[c] # gpu_get[c]

\* C6: queued is strictly increasing: every end_push adds exactly one to it
\* and no other step changes it.
C6_QueuedMonotone ==
    [][\A c \in Channels :
          IF \E t \in Threads : EndPushStep(t) /\ thread[t].channel = c
          THEN queued_value'[c] = queued_value[c] + 1
          ELSE queued_value'[c] = queued_value[c]]_vars

\* C6 witness: several pushes have ended on a channel whose progress is updated
C6_Witness ==
    \E c \in Channels :
        /\ queued_value[c] >= 2
        /\ pushbuffer[c].mark_completed # <<>>
        /\ \E t \in Threads : thread[t].pc = "end_push" /\ thread[t].channel = c

\* C7: completed never exceeds queued and never decreases, for a GPU that
\* releases only the payloads of published pushes.
C7_CompletedMonotone ==
    /\ [](\A c \in Channels : completed_value[c] <= queued_value[c])
    /\ [][\A c \in Channels : completed_value'[c] >= completed_value[c]]_vars

\* C7 witness: the completed value has passed one period of the payload
\* while a later push is still to be completed
C7_Witness ==
    \E c \in Channels :
        /\ completed_value[c] >= PayloadMod - 1
        /\ completed_value[c] < queued_value[c]
        /\ queued_value[c] >= PayloadMod

\* C8: the k-th end_push of a channel stamps tracking value k into slot
\* (k - 1) mod N, so no two slots carry the same value and the values are
\* consecutive in submission order.
C8_ReleaseUnique ==
    \A c \in Channels :
        /\ Len(pushbuffer[c].end_push) = queued_value[c]
        /\ \A k \in 1 .. Len(pushbuffer[c].end_push) :
               /\ pushbuffer[c].end_push[k] = [slot |-> (k - 1) % N, value |-> k]
               /\ k > queued_value[c] - N =>
                      gpfifo_entries[c][(k - 1) % N].tracking_semaphore_value = k

\* C8 witness: the ring has wrapped and a slot has been stamped a second time
C8_Witness ==
    \E c \in Channels :
        /\ queued_value[c] > N
        /\ gpfifo_entries[c][0].tracking_semaphore_value = N + 1

\* C9: slots are reclaimed in exactly the order they were published: the
\* calls of mark_completed are a prefix of the calls of end_push.
C9_ReclaimOrder ==
    \A c \in Channels :
        /\ Len(pushbuffer[c].mark_completed) <= Len(pushbuffer[c].end_push)
        /\ \A i \in 1 .. Len(pushbuffer[c].mark_completed) :
               /\ i <= Len(pushbuffer[c].end_push)
               /\ pushbuffer[c].mark_completed[i] = pushbuffer[c].end_push[i]

\* C9 witness: more slots than the ring holds have been reclaimed
C9_Witness ==
    \E c \in Channels : Len(pushbuffer[c].mark_completed) > N

\* the places a push-info record p of channel c is in
PushInfoPlaces(c, p) ==
    Cardinality({i \in 1 .. Len(available_push_infos[c]) :
                     available_push_infos[c][i] = p})
    + Cardinality({t \in Threads : /\ thread[t].channel = c
                                   /\ thread[t].push_info_index = p})
    + Cardinality({i \in RingRange(c) : gpfifo_entries[c][i].push_info = p})

\* C10: each of the N push-info records is in exactly one of the free-list,
\* a push between begin_push and end_push, or one slot of [gpu_get, cpu_put).
C10_PushInfoPartition ==
    \A c \in Channels : \A p \in Slots : PushInfoPlaces(c, p) = 1

\* C10 witness: records in all three places, after records have been returned
C10_Witness ==
    \E c \in Channels :
        /\ available_push_infos[c] # <<>>
        /\ \E t \in Threads : thread[t].channel = c /\ thread[t].push_info_index # NULL
        /\ cpu_put[c] # gpu_get[c]
        /\ pushbuffer[c].mark_completed # <<>>

\* C11: whenever uvm_channel_begin_push runs after a granted reservation the
\* push-info free-list of the channel is not empty: the assertion of
\* channel_get_available_push_info_index never fails, however many pushes
\* are between their reservation and their end.
C11_PushInfoAvailable ==
    \A t \in Threads :
        /\ thread[t].pc # "assert_failed"
        /\ thread[t].pc = "begin_push" =>
               available_push_infos[thread[t].channel] # <<>>

\* C11 witness: begin_push has taken a record for one push while another
\* push holds a record too and the ring is full
C11_Witness ==
    \E t, u \in Threads :
        LET c == thread[t].channel
        IN  /\ t # u
            /\ thread[t].pc = "end_push" /\ thread[t].push_info_index # NULL
            /\ thread[u].pc = "end_push" /\ thread[u].channel = c
            /\ current_pushes_count[c] + Pending(c) = N - 1
            /\ pushbuffer[c].mark_completed # <<>>

\* C16: uvm_channel_reserve returns NV_OK exactly when the call added one
\* to current_pushes_count; a call that returns a channel error holds no
\* reservation.
C16_ReserveStatus ==
    \A t \in Threads :
        (thread[t].op = "reserve" /\ thread[t].pc = "done") =>
            (thread[t].status = NV_OK <=> thread[t].claimed)

\* the loop of update_progress as the walk of channel c starts it
WalkStart(c) ==
    [gpu_get |-> gpu_get[c], completed_count |-> 0,
     available |-> available_push_infos[c], marked |-> <<>>]

\* calls of update_progress with max_to_complete = k, one after the other,
\* until a call reclaims nothing
RECURSIVE RepeatProgress(_, _, _, _, _)
RepeatProgress(c, st, put, completed, k) ==
    LET st1 == ProgressLoop(c, [st EXCEPT !.completed_count = 0], put, completed,
                            k, UVM_CHANNEL_UPDATE_MODE_COMPLETED)
    IN  IF st1.completed_count = 0 THEN st1
        ELSE RepeatProgress(c, st1, put, completed, k)

\* C15: with the completed value fixed and no push in between, calls of
\* update_progress with max_to_complete = k >= 1, repeated until one
\* reclaims nothing, end with the same gpu_get, free push-infos and
\* mark_completed calls as one call with max_to_complete = N.
C15_BoundedProgress ==
    \A c \in Channels : \A k \in 1 .. N :
        \A completed \in completed_value[c] .. queued_value[c] :
            LET many == RepeatProgress(c, WalkStart(c), cpu_put[c], completed, k)
                once == ProgressLoop(c, WalkStart(c), cpu_put[c], completed, N,
                                     UVM_CHANNEL_UPDATE_MODE_COMPLETED)
            IN  /\ many.gpu_get = once.gpu_get
                /\ many.available = once.available
                /\ many.marked = once.marked

\* C15 witness: a call of update_progress stopped at its limit, leaving a
\* completed slot for the next call
C15_Witness ==
    \E t \in Threads :
        LET c == thread[t].channel
        IN  /\ thread[t].op = "update_progress" /\ thread[t].pc = "done"
            /\ thread[t].pending_gpfifos >= 1
            /\ pushbuffer[c].mark_completed # <<>>
            /\ cpu_put[c] # gpu_get[c]
            /\ gpfifo_entries[c][gpu_get[c]].tracking_semaphore_value
                   <= completed_value[c]
            /\ DefaultMaxToComplete < N - 1

\* thread t takes the step of check_errors that reads the channel status
InspectStep(t) ==
    /\ thread[t].pc = "ce_status"
    /\ thread'[t] # thread[t]

\* thread t takes the last step of a check_errors that found an error
SetFatalStep(t) ==
    /\ thread[t].pc = "ce_set_fatal"
    /\ thread'[t] # thread[t]

\* C18: channel errors are sticky: a channel whose status is not NV_OK, as
\* after a check_errors that returned an error, keeps a status that is not
\* NV_OK; every later check_errors that inspects it finds and returns an
\* error; no step of a host thread changes the error notifier.
C18_Sticky ==
    [][/\ \A c \in Channels :
              uvm_channel_get_status(c) # NV_OK => (uvm_channel_get_status(c))' # NV_OK
       /\ \A t \in Threads : \A c \in Channels :
              /\ (thread'[t].op = "check_errors" /\ thread'[t].pc = "done"
                      /\ thread'[t].channel = c /\ thread'[t].status # NV_OK)
                     => (uvm_channel_get_status(c))' # NV_OK
              /\ (InspectStep(t) /\ thread[t].channel = c /\ errorNotifier[c] # 0)
                     => thread'[t].status # NV_OK
              /\ (SetFatalStep(t) /\ thread[t].channel = c /\ errorNotifier[c] # 0)
                     => thread'[t].status # NV_OK
       /\ (thread' # thread) => errorNotifier' = errorNotifier]_vars

\* C18 witness: a check_errors returns an error for the only faulted channel
\* after an earlier check_errors has raised the flag with another error
C18_Witness ==
    \E t \in Threads :
        LET c == thread[t].channel
        IN  /\ thread[t].op = "check_errors" /\ thread[t].pc = "done"
            /\ thread[t].status = NV_ERR_ECC_ERROR
            /\ global_fatal_error = NV_ERR_RC_ERROR
            /\ \A d \in Channels \ {c} : errorNotifier[d] = 0

\* C19: check_errors returns NV_OK iff the error notifier of the channel is
\* zero when it is inspected; when it is not zero the call returns the ECC
\* error if the ECC error notifier is set at that moment, else the RC error.
C19_CheckErrorsStatus ==
    [][\A t \in Threads :
          /\ InspectStep(t) =>
                 LET c == thread[t].channel
                 IN  thread'[t].status =
                         IF errorNotifier[c] = 0 THEN NV_OK
                         ELSE IF ecc_error_notifier # 0 THEN NV_ERR_ECC_ERROR
                         ELSE NV_ERR_RC_ERROR
          /\ (thread[t].pc \in {"up_refresh", "up_walk", "fpe_lock", "ce_set_fatal"}
                  /\ thread'[t] # thread[t])
                 => thread'[t].status = thread[t].status]_vars

\* C19 witness: check_errors has returned the ECC error for a faulted channel
\* while another channel is free of errors
C19_Witness ==
    \E t \in Threads :
        /\ thread[t].op = "check_errors" /\ thread[t].pc = "done"
        /\ thread[t].status = NV_ERR_ECC_ERROR
        /\ \E c \in Channels : errorNotifier[c] = 0

\* C20 as stated: a check_errors call that has returned a status other than
\* NV_OK has raised the fatal flag with that status; a call that returns
\* NV_OK leaves the flag alone; with the flag raised, manager_check_errors
\* returns the flag without inspecting a channel.
C20_Original ==
    [][\A t \in Threads :
          /\ SetFatalStep(t) => global_fatal_error' = thread'[t].status
          /\ (InspectStep(t) /\ errorNotifier[thread[t].channel] = 0)
                 => global_fatal_error' = global_fatal_error
          /\ (thread[t].pc = "mce_global" /\ thread'[t] # thread[t]
                  /\ global_fatal_error # NV_OK)
                 => /\ thread'[t].pc = "done"
                    /\ thread'[t].status = global_fatal_error]_vars

\* C20 amended: a check_errors call that returns a status other than NV_OK
\* has raised the fatal flag before returning: the flag holds that status if
\* no error was recorded before and keeps the earlier error otherwise; a
\* call that returns NV_OK leaves the flag alone; with the flag raised,
\* manager_check_errors returns the flag without inspecting a channel.
C20_Amended ==
    [][\A t \in Threads :
          /\ SetFatalStep(t) =>
                 /\ global_fatal_error' # NV_OK
                 /\ global_fatal_error = NV_OK
                        => global_fatal_error' = thread'[t].status
                 /\ global_fatal_error # NV_OK
                        => global_fatal_error' = global_fatal_error
          /\ (InspectStep(t) /\ errorNotifier[thread[t].channel] = 0)
                 => global_fatal_error' = global_fatal_error
          /\ (thread[t].pc = "mce_global" /\ thread'[t] # thread[t]
                  /\ global_fatal_error # NV_OK)
                 => /\ thread'[t].pc = "done"
                    /\ thread'[t].status = global_fatal_error]_vars

\* C20 witness: manager_check_errors has returned the raised flag, an RC
\* error recorded before the GPU reported the ECC error
C20_Witness ==
    \E t, u \in Threads :
        /\ thread[t].op = "manager_check_errors" /\ thread[t].pc = "done"
        /\ thread[t].status = global_fatal_error
        /\ global_fatal_error = NV_ERR_RC_ERROR
        /\ ecc_error_notifier # 0
        /\ thread[u].pc = "idle"

\* thread t is at a try_claim_channel of a reservation and takes it
ClaimStep(t) ==
    /\ thread[t].pc \in {"reserve_fast", "reserve_loop", "pool_scan", "pool_claim"}
    /\ thread'[t] # thread[t]

\* thread t is in uvm_channel_reserve or channel_reserve_in_pool
InReservation(t) ==
    /\ thread[t].op \in {"reserve", "reserve_in_pool"}
    /\ thread[t].pc # "done"

\* C17 as stated: a reservation attempt that starts after the error notifier
\* of its channel became nonzero returns the channel error and never NV_OK,
\* whether the attempt is uvm_channel_reserve on the channel or
\* channel_reserve_in_pool picking the channel.
C17_Original ==
    \A t \in Threads :
        (/\ thread[t].op \in {"reserve", "reserve_in_pool"}
         /\ thread[t].pc = "done"
         /\ thread[t].channel \in FaultedChannels)
            => thread[t].status # NV_OK

\* C17 amended: a reservation attempt returns the channel error once it has
\* called check_errors on a channel whose error notifier is nonzero, which it
\* does only after a claim was denied; a claim that finds free capacity
\* before that is granted and the attempt returns NV_OK, error or not.
C17_Amended ==
    [][\A t \in Threads :
          LET c == thread[t].channel
          IN  /\ (ClaimStep(t) /\ channel_is_available(c) /\ thread[t].status = NV_OK)
                     => /\ thread'[t].pc = "done"
                        /\ thread'[t].status = NV_OK
                        /\ current_pushes_count'[c] = current_pushes_count[c] + 1
              /\ (InReservation(t) /\ InspectStep(t) /\ c \in FaultedChannels)
                     => thread'[t].status # NV_OK
              /\ (InReservation(t) /\ thread[t].status # NV_OK /\ thread'[t] # thread[t])
                     => /\ thread'[t].status = thread[t].status
                        /\ thread[t].pc = "reserve_loop" => thread'[t].pc = "done"
                        /\ (thread[t].pc = "ce_set_fatal"
                               /\ thread[t].op = "reserve_in_pool")
                              => thread'[t].pc = "done"]_vars

\* C17 witness: a reservation that started on a faulted channel has returned
\* NV_OK, after an earlier one had found the error
C17_Witness ==
    \E t \in Threads :
        /\ thread[t].op \in {"reserve", "reserve_in_pool"}
        /\ thread[t].pc = "done"
        /\ thread[t].channel \in FaultedChannels
        /\ thread[t].status = NV_OK /\ thread[t].claimed
        /\ global_fatal_error # NV_OK

\* the fields of channel c that the pool lock guards
LockedFields(c) ==
    <<cpu_put[c], gpu_get[c], current_pushes_count[c], queued_value[c],
      available_push_infos[c]>>

\* the positions whose next statements decide on a read of cpu_put or gpu_get
\* (lines 156-158, 89-92, 393 and 318)
DecisionReads == {"reserve_fast", "reserve_loop", "up_walk", "fpe_lock", "end_push"}

\* C12: every write of a channel's cpu_put, gpu_get, current_pushes_count,
\* queued value or push-info free-list, and every read of cpu_put or gpu_get
\* that a decision is based on, is a step of a thread that holds the pool
\* lock; at most one thread holds the lock.
C12_LockDiscipline ==
    [][/\ \A c \in Channels :
              LockedFields(c)' # LockedFields(c)
                  => \E t \in lock : thread'[t] # thread[t]
       /\ \A t \in Threads :
              (thread'[t] # thread[t] /\ thread[t].pc \in DecisionReads)
                  => t \in lock
       /\ Cardinality(lock) <= 1
       /\ Cardinality(lock') <= 1]_vars

\* C12 witness: a thread inside end_push holds the lock, GPPUT written, while
\* another thread waits for the lock at a locked section
C12_Witness ==
    \E t, u \in Threads :
        /\ t \in lock /\ thread[t].pc = "end_push_notify"
        /\ u \notin lock /\ thread[u].pc \in LockedSections

\* C13: a slot that update_progress has passed to mark_completed has been
\* passed to the end_push of the pushbuffer before, however early the GPU
\* completes the push after the write of GPPUT.
C13_EndPushBeforeMarkCompleted ==
    \A c \in Channels :
        \A i \in 1 .. Len(pushbuffer[c].mark_completed) :
            \E j \in 1 .. Len(pushbuffer[c].end_push) :
                pushbuffer[c].end_push[j] = pushbuffer[c].mark_completed[i]

\* C13 witness: GPPUT is written and the GPU has completed the push before
\* uvm_pushbuffer_end_push is called; another thread has read the new
\* completed value and is about to walk the ring
C13_Witness ==
    \E t, u \in Threads :
        LET c == thread[t].channel
        IN  /\ thread[t].pc = "end_push_notify"
            /\ hw_get[c] = gpu_put[c]
            /\ thread[u].pc = "up_walk" /\ thread[u].channel = c
            /\ thread[u].completed_value = queued_value[c]
            /\ gpfifo_entries[c][thread[t].entry].tracking_semaphore_value
                   = queued_value[c]
            /\ Len(pushbuffer[c].end_push) < queued_value[c]

\* thread t takes a step of a reserve, begin_push, end_push sequence
PushSequenceStep(t) ==
    /\ thread[t].op \in {"reserve", "begin_push", "push"}
    /\ thread'[t] # thread[t]

NewlyMarked(c) ==
    SubSeq(pushbuffer'[c].mark_completed,
           Len(pushbuffer[c].mark_completed) + 1,
           Len(pushbuffer'[c].mark_completed))

\* the slots a walk stepped over: the ring range [gpu_get, gpu_get')
Reclaimed(c) ==
    {(gpu_get[c] + i) % N :
         i \in 0 .. (((gpu_get'[c] - gpu_get[c]) % N) - 1)}

\* C29: in Completed mode update_progress never reclaims a slot whose
\* tracking value is greater than the channel's completed value: every slot
\* it steps over, calls mark_completed for and returns the push-info of has
\* a tracking value <= the completed value the walk was given, which is <=
\* the channel's completed value, whatever ran between refresh and walk.
C29_CompletedOnly ==
    [][\A t \in Threads :
          (WalkStep(t) /\ thread[t].mode = UVM_CHANNEL_UPDATE_MODE_COMPLETED) =>
              LET c == thread[t].channel
                  marked == NewlyMarked(c)
                  returned == SubSeq(available_push_infos'[c],
                                     Len(available_push_infos[c]) + 1,
                                     Len(available_push_infos'[c]))
              IN  /\ thread[t].completed_value <= completed_value[c]
                  /\ Len(marked) = Cardinality(Reclaimed(c))
                  /\ Len(returned) = Len(marked)
                  /\ \A s \in Reclaimed(c) :
                         gpfifo_entries[c][s].tracking_semaphore_value
                             <= thread[t].completed_value
                  /\ \A i \in 1 .. Len(marked) :
                         /\ marked[i].slot \in Reclaimed(c)
                         /\ marked[i].value <= thread[t].completed_value
                         /\ returned[i] = gpfifo_entries[c][marked[i].slot].push_info]_vars

\* C29 witness: an update_progress reclaimed a slot and stopped at the slot
\* published last, whose tracking value is above the completed value
C29_Witness ==
    \E t \in Threads :
        LET c == thread[t].channel
        IN  /\ thread[t].op = "update_progress" /\ thread[t].pc = "done"
            /\ thread[t].pending_gpfifos = 1
            /\ pushbuffer[c].mark_completed # <<>>
            /\ pushbuffer[c].end_push[Len(pushbuffer[c].end_push)].slot = gpu_get[c]
            /\ cpu_put[c] # gpu_get[c]
            /\ gpfifo_entries[c][gpu_get[c]].tracking_semaphore_value
                   > completed_value[c]

\* C30: update_progress reclaims at most max_to_complete slots per call
\* (DefaultMaxToComplete for uvm_channel_update_progress) and returns
\* (cpu_put - gpu_get) mod N for the cpu_put it read under the lock and the
\* gpu_get it leaves, which is 0 exactly when the ring is empty at the end of
\* the locked section.
C30_ReturnedPending ==
    [][\A t \in Threads :
          WalkStep(t) =>
              LET c == thread[t].channel
                  returned == (cpu_put[c] - gpu_get'[c]) % N
              IN  /\ Len(NewlyMarked(c)) <= thread[t].max_to_complete
                  /\ Cardinality(Reclaimed(c)) <= thread[t].max_to_complete
                  /\ thread[t].op = "update_progress" =>
                         /\ thread[t].max_to_complete = DefaultMaxToComplete
                         /\ thread'[t].pending_gpfifos = returned
                         /\ (thread'[t].pending_gpfifos = 0)
                                <=> (cpu_put'[c] = gpu_get'[c])
                  /\ Head(thread[t].stack) = "first_pending" =>
                         ((thread'[t].pc = "ce_set_fatal") <=> (returned = 0))]_vars

\* C30 witness: an update_progress returned 1 for a ring whose cpu_put has
\* wrapped around and whose gpu_get has not
C30_Witness ==
    \E t \in Threads :
        LET c == thread[t].channel
        IN  /\ thread[t].op = "update_progress" /\ thread[t].pc = "done"
            /\ thread[t].pending_gpfifos = 1
            /\ cpu_put[c] < gpu_get[c]
            /\ pushbuffer[c].mark_completed # <<>>

\* thread t takes the step of uvm_channel_get_first_pending_entry that
\* decides the entry: the walk that returned 0, or the locked look at the ring
FatalEntryStep(t) ==
    /\ thread[t].pc \in {"up_walk", "fpe_lock"}
    /\ thread'[t].pc = "ce_set_fatal"

\* C21 as stated: on a faulted channel the fatal entry is the slot at gpu_get,
\* the oldest published slot, its tracking value exceeds the channel's
\* completed value, and it is NULL exactly when no published slot is pending.
C21_Original ==
    [][\A t \in Threads :
          FatalEntryStep(t) =>
              LET c == thread[t].channel
                  entry == thread'[t].fatal_entry
              IN  /\ errorNotifier[c] # 0
                  /\ (entry = NULL) <=> (cpu_put'[c] = gpu_get'[c])
                  /\ entry # NULL =>
                         /\ entry = gpu_get'[c]
                         /\ gpfifo_entries[c][entry].tracking_semaphore_value
                                > completed_value[c]]_vars

\* C21 as amended: on a faulted channel the walk of
\* uvm_channel_get_first_pending_entry reclaims every slot whose tracking
\* value is at most the completed value its own refresh returned and leaves
\* only slots above that value; the entry reported is NULL exactly when the
\* ring is empty at the step that decides it, and is otherwise the slot at
\* gpu_get at that step, the oldest published slot not yet reclaimed.
C21_Amended ==
    [][\A t \in Threads :
          LET c == thread[t].channel
              entry == thread'[t].fatal_entry
          IN  /\ (WalkStep(t) /\ Head(thread[t].stack) = "first_pending") =>
                     /\ errorNotifier[c] # 0
                     /\ \A s \in Reclaimed(c) :
                            gpfifo_entries[c][s].tracking_semaphore_value
                                <= thread[t].completed_value
                     /\ \A s \in RingRange(c)' :
                            gpfifo_entries[c][s].tracking_semaphore_value
                                > thread[t].completed_value
                     /\ (thread'[t].pc = "ce_set_fatal") <=> (cpu_put[c] = gpu_get'[c])
                     /\ thread'[t].pc = "ce_set_fatal" => entry = NULL
              /\ (thread[t].pc = "fpe_lock" /\ thread'[t].pc = "ce_set_fatal") =>
                     /\ errorNotifier[c] # 0
                     /\ (entry = NULL) <=> (cpu_put[c] = gpu_get[c])
                     /\ entry # NULL =>
                            /\ entry = gpu_get[c]
                            /\ entry \in RingRange(c)
                            /\ \A s \in RingRange(c) :
                                   gpfifo_entries[c][s].tracking_semaphore_value
                                       >= gpfifo_entries[c][entry].tracking_semaphore_value]_vars

\* C21 witness: a check_errors holds as fatal entry the slot at gpu_get, with
\* a completed slot reclaimed before it and a newer slot published after it
C21_Witness ==
    \E t \in Threads :
        LET c == thread[t].channel
        IN  /\ thread[t].pc = "ce_set_fatal"
            /\ thread[t].fatal_entry # NULL
            /\ thread[t].fatal_entry = gpu_get[c]
            /\ errorNotifier[c] # 0
            /\ pushbuffer[c].mark_completed # <<>>
            /\ Pending(c) >= 2

C23_WaitDrains ==
    \A t \in Threads :
        (/\ thread[t].op = "manager_wait"
         /\ thread[t].pc = "done"
         /\ thread[t].status = NV_OK) =>
            /\ \A c \in Channels :
                   /\ gpu_get[c] = cpu_put[c]
                   /\ completed_value[c] = queued_value[c]
                   /\ Pending(c) = 0
            /\ thread[t].pending_gpfifos = 0

\* C23 witness: a wait returned NV_OK after pushes on every channel, all of
\* them completed and reclaimed
C23_Witness ==
    \E t \in Threads :
        /\ thread[t].op = "manager_wait"
        /\ thread[t].pc = "done"
        /\ thread[t].status = NV_OK
        /\ \A c \in Channels :
               /\ queued_value[c] >= 1
               /\ Len(pushbuffer[c].mark_completed) = queued_value[c]

\* thread t is inside a uvm_channel_reserve call
InReserveCall(t) ==
    thread[t].op = "reserve" /\ thread[t].pc # "done"

\* C24: one thread issuing MaxPushes > N - 1 consecutive reserve,
\* begin_push, end_push sequences on a channel without errors, against a
\* GPU that completes every published slot sooner or later: every reserve
\* call returns, with NV_OK and a claim, and the whole sequence comes to
\* its end, all MaxPushes pushes published and the thread in no call.
C24_SequenceTerminates ==
    /\ \A t \in SequencePushers :
           InReserveCall(t) ~>
               (/\ thread[t].op = "reserve" /\ thread[t].pc = "done"
                /\ thread[t].status = NV_OK /\ thread[t].claimed)
    /\ [](\A t \in SequencePushers :
              (thread[t].op = "reserve" /\ thread[t].pc = "done") =>
                  (thread[t].status = NV_OK /\ thread[t].claimed))
    /\ <>[](/\ \E c \in Channels : queued_value[c] = MaxPushes
            /\ \A c \in Channels : current_pushes_count[c] = 0
            /\ \A t \in SequencePushers : thread[t].pc = "idle")

\* C24 witness: the last reserve of the sequence was denied on a full ring
\* and is polling, more than N - 1 pushes into the sequence
C24_Witness ==
    \E t \in SequencePushers :
        LET c == thread[t].channel
        IN  /\ MaxPushes > N - 1
            /\ InReserveCall(t)
            /\ thread[t].pc = "reserve_loop"
            /\ queued_value[c] = MaxPushes - 1
            /\ Pending(c) = N - 1

\* the powers of two in [32, 2^20]
RingSizes == {2 ^ k : k \in 5 .. 20}

\* C27: for every value of the num_gpfifo_entries parameter the effective
\* ring size is a power of two in [32, 2^20]: values below 32 give 32,
\* values above 2^20 give 2^20, any other value that is no power of two
\* gives 1024, and a power of two in the range is kept (20 -> 32,
\* 1500 -> 1024).
C27_RingSize ==
    manager.pc # "init_conf" =>
        LET param == module_params.uvm_channel_num_gpfifo_entries
            size == manager.conf.num_gpfifo_entries
        IN  /\ size \in RingSizes
            /\ param < 32 => size = 32
            /\ param > 2 ^ 20 => size = 2 ^ 20
            /\ (param >= 32 /\ param <= 2 ^ 20 /\ param \notin RingSizes) => size = 1024
            /\ param \in RingSizes => size = param
            /\ param = 20 => size = 32
            /\ param = 1500 => size = 1024

\* C27 witness: the configuration made of the parameter value 1500
C27_Witness ==
    /\ manager.pc # "init_conf"
    /\ module_params.uvm_channel_num_gpfifo_entries = 1500
    /\ manager.conf.num_gpfifo_entries = 1024

\* a location string as the parameter description reads it: "sys", "vid"
\* and "auto" as given, anything else as "auto"
HonouredLocation(loc) ==
    IF loc \in {"sys", "vid", "auto"} THEN loc ELSE "auto"

\* C28: each of the location parameters gpfifo_loc, gpput_loc and
\* pushbuffer_loc is validated on its own string: on a GPU with memory that
\* supports the GPFIFO knobs, each configured location is the one its own
\* string asks for ("sys", "vid" or "auto" as given, anything else as
\* "auto"), whatever the strings of the other two parameters.
C28_OwnString ==
    (manager.pc # "init_conf" /\ gpu.mem_info_size # 0) =>
        LET pushbuffer_str == HonouredLocation(module_params.uvm_channel_pushbuffer_loc)
            gpfifo_str == HonouredLocation(module_params.uvm_channel_gpfifo_loc)
            gpput_str == HonouredLocation(module_params.uvm_channel_gpput_loc)
        IN  /\ manager.conf.pushbuffer_loc =
                   IF pushbuffer_str = "vid" /\ ~gpu.NVCPU_IS_AARCH64
                   THEN UVM_BUFFER_LOCATION_VID ELSE UVM_BUFFER_LOCATION_SYS
            /\ gpu.gpfifo_in_vidmem_supported =>
                   /\ manager.conf.gpfifo_loc =
                          CASE gpfifo_str = "sys" -> UVM_BUFFER_LOCATION_SYS
                            [] gpfifo_str = "vid" -> UVM_BUFFER_LOCATION_VID
                            [] OTHER -> IF gpu.sysmem_link_nvlink_2
                                        THEN UVM_BUFFER_LOCATION_SYS
                                        ELSE UVM_BUFFER_LOCATION_VID
                   /\ manager.conf.gpput_loc =
                          CASE gpput_str = "sys" -> UVM_BUFFER_LOCATION_SYS
                            [] gpput_str = "vid" -> UVM_BUFFER_LOCATION_VID
                            [] OTHER -> UVM_BUFFER_LOCATION_VID

\* C25: for the table CE0 = {sysmem}, CE1 = {sysmem, p2p, nvlinkP2p, 8 PCEs},
\* CE2 = {p2p, 16 PCEs}, all supported, none grce, none shared, sysmem reads
\* and writes equally fast on all, picking in the order CPU_TO_GPU,
\* GPU_TO_CPU, GPU_INTERNAL, GPU_TO_GPU, MEMOPS yields 0, 0, 2, 2 and 1, and
\* 3 pools are created, one per copy engine (and the proxy pool where the GPU
\* uses one).
C25_ExamplePick ==
    gpu.ces_caps \in ExampleTables =>
        /\ manager.status # NV_ERR_NOT_SUPPORTED
        /\ manager.pc \notin {"init_conf", "pick_copy_engines"} =>
               /\ manager.preferred_ce[UVM_CHANNEL_TYPE_CPU_TO_GPU] = 0
               /\ manager.preferred_ce[UVM_CHANNEL_TYPE_GPU_TO_CPU] = 0
               /\ manager.preferred_ce[UVM_CHANNEL_TYPE_GPU_INTERNAL] = 2
               /\ manager.preferred_ce[UVM_CHANNEL_TYPE_GPU_TO_GPU] = 2
               /\ manager.preferred_ce[UVM_CHANNEL_TYPE_MEMOPS] = 1
               /\ manager.ce_mask = {0, 1, 2}
        /\ manager.pc = "created" =>
               /\ manager.num_channel_pools =
                      IF gpu.uses_proxy_channel_pool THEN 4 ELSE 3
               /\ Len(manager.channel_pools) = manager.num_channel_pools
               /\ \A i \in 1 .. 3 :
                      manager.channel_pools[i] = [ce_index |-> i - 1, is_proxy |-> FALSE]

\* C25 witness: the manager created for the table, with its 3 pools
C25_Witness ==
    /\ gpu.ces_caps = ExampleCaps
    /\ ~gpu.uses_proxy_channel_pool
    /\ manager.pc = "created"
    /\ manager.num_channel_pools = 3
    /\ manager.default_for_type[UVM_CHANNEL_TYPE_MEMOPS] = 1

\* a copy engine usable for a type: supported, not grce, with sysmem for the
\* types to and from the CPU, with p2p for GPU_TO_GPU
UsableFor(type, cap) ==
    /\ cap.supported = 1
    /\ cap.grce = 0
    /\ type \in {UVM_CHANNEL_TYPE_CPU_TO_GPU, UVM_CHANNEL_TYPE_GPU_TO_CPU} =>
           cap.sysmem = 1
    /\ type = UVM_CHANNEL_TYPE_GPU_TO_GPU => cap.p2p = 1

\* the types for which the GPU has no usable copy engine
TypesWithoutCe ==
    {type \in ChannelTypes : \A ce \in CopyEngines : ~UsableFor(type, gpu.ces_caps[ce])}

\* C26: if any of the five channel types has no usable copy engine, the
\* choice of copy engines returns NV_ERR_NOT_SUPPORTED, the construction of
\* the manager fails with that status, and no channel pool is ever left
\* allocated.
C26_NotSupported ==
    TypesWithoutCe # {} =>
        /\ manager.pc \in {"init_conf", "pick_copy_engines", "destroy", "failed"}
        /\ manager.pc \in {"destroy", "failed"} =>
               manager.status = NV_ERR_NOT_SUPPORTED
        /\ manager.num_channel_pools = 0
        /\ manager.channel_pools = <<>>

\* C26 witness: a construction that failed for GPU_TO_GPU alone, after copy
\* engines were found for the types before it
C26_Witness ==
    /\ TypesWithoutCe = {UVM_CHANNEL_TYPE_GPU_TO_GPU}
    /\ manager.pc = "failed"
    /\ manager.status = NV_ERR_NOT_SUPPORTED
    /\ manager.ce_mask # {}
    /\ manager.num_channel_pools = 0

\* channel c is full and the GPU has executed none of its published slots
FullAndStuck(c) ==
    /\ ~channel_is_available(c)
    /\ hw_get[c] = gpu_get[c]

\* uvm_channel_reserve(c) of thread t returned the error of the channel,
\* without a claim
ReserveReturnedError(t, c) ==
    /\ thread[t].op = "reserve" /\ thread[t].pc = "done"
    /\ thread[t].channel = c
    /\ thread[t].status \in {NV_ERR_RC_ERROR, NV_ERR_ECC_ERROR}
    /\ ~thread[t].claimed

\* C31: a uvm_channel_reserve call spinning on a full channel whose slots
\* never complete returns, with the channel error and no claim, once the
\* error notifier of the channel is nonzero.
C31_ErrorEndsSpin ==
    \A t \in StuckPushers, c \in RingChannels :
        []((/\ InReserveCall(t) /\ thread[t].channel = c
            /\ errorNotifier[c] # 0
            /\ [](FullAndStuck(c) /\ errorNotifier[c] # 0))
               => <>ReserveReturnedError(t, c))

\* C31 witness: the call returned the error from its loop, the channel
\* still full and not one slot executed
C31_Witness ==
    \E t \in StuckPushers, c \in RingChannels :
        /\ ReserveReturnedError(t, c)
        /\ FullAndStuck(c)
        /\ Pending(c) = N - 1
        /\ errorNotifier[c] # 0

\* the fast-path claim attempt of thread t was denied in this step
FastDenied(t) ==
    /\ thread[t].pc = "reserve_fast"
    /\ thread'[t] # thread[t]
    /\ ~(thread'[t].pc = "done" /\ thread'[t].claimed)

\* thread t comes to a claim attempt of the loop of line 372 in this step
ToLoopClaim(t) ==
    /\ thread'[t].pc = "reserve_loop"
    /\ thread'[t] # thread[t]

\* thread t ends the walk of an update_progress of channel c in this step
WalkEnds(t, c) ==
    /\ thread[t].pc = "up_walk"
    /\ thread[t].channel = c
    /\ thread[t].mode = UVM_CHANNEL_UPDATE_MODE_COMPLETED
    /\ thread'[t].pc # "up_walk"

\* C32: a uvm_channel_reserve call whose fast-path claim is denied goes on
\* to an update_progress of that channel, and every claim attempt of the
\* loop is reached from the end of an update_progress of the channel by the
\* calling thread: no reservation is granted after a wait without a
\* progress update in between.
C32_ProgressBeforeRetry ==
    [][\A t \in Threads :
           /\ FastDenied(t) =>
                  /\ thread'[t].pc = "up_refresh"
                  /\ thread'[t].channel = thread[t].channel
                  /\ thread'[t].stack = <<"reserve_loop">>
                  /\ current_pushes_count' = current_pushes_count
           /\ ToLoopClaim(t) =>
                  /\ WalkEnds(t, thread'[t].channel)
                  /\ thread[t].op = "reserve"
           /\ (thread[t].op = "reserve" /\ thread'[t].pc = "done"
               /\ thread'[t] # thread[t]) =>
                  thread[t].pc \in {"reserve_fast", "reserve_loop"}]_vars

\* C32 witness: a call denied on its fast path has updated the progress of
\* the channel and is at a claim attempt that will be granted
C32_Witness ==
    \E t \in Threads :
        /\ thread[t].op = "reserve"
        /\ thread[t].pc = "reserve_loop"
        /\ thread[t].status = NV_OK
        /\ channel_is_available(thread[t].channel)

\* thread t is inside channel_reserve_in_pool and takes a step
PoolStep(t) ==
    /\ thread[t].op = "reserve_in_pool"
    /\ thread[t].pc # "done"
    /\ thread'[t] # thread[t]

\* the step of thread t is a try_claim_channel of channel_reserve_in_pool
PoolClaimAttempt(t) ==
    PoolStep(t) /\ thread[t].pc \in {"pool_scan", "pool_claim"}

\* the step of thread t returns NV_OK from channel_reserve_in_pool with
\* channel c
PoolGranted(t, c) ==
    /\ PoolStep(t)
    /\ thread'[t].pc = "done"
    /\ thread'[t].status = NV_OK
    /\ thread'[t].channel = c

\* C33: channel_reserve_in_pool tries the channels of the pool in array
\* order from the first, each scan after the last one beginning at the first
\* again, and returns the first channel on which try_claim_channel succeeds;
\* when it returns NV_OK, current_pushes_count went up by one on exactly one
\* channel of the pool, the one returned, and on no channel otherwise.
C33_PoolScanOrder ==
    /\ [][\A t \in PoolReservers :
              /\ (thread[t].pc = "idle" /\ thread'[t].op = "reserve_in_pool") =>
                     (thread'[t].pc = "pool_scan" /\ thread'[t].channel = 0)
              /\ PoolClaimAttempt(t) =>
                     LET c == thread[t].channel
                     IN  IF channel_is_available(c)
                         THEN /\ PoolGranted(t, c)
                              /\ thread'[t].claimed
                              /\ current_pushes_count' =
                                     [current_pushes_count EXCEPT ![c] = @ + 1]
                         ELSE /\ thread'[t].pc # "done"
                              /\ current_pushes_count' = current_pushes_count
                              /\ thread[t].pc = "pool_scan" =>
                                     thread'[t].channel = (c + 1) % NumChannels
                              /\ thread[t].pc = "pool_claim" =>
                                     thread'[t].channel = c
              /\ (PoolStep(t) /\ ~PoolClaimAttempt(t)) =>
                     /\ current_pushes_count' = current_pushes_count
                     /\ thread'[t].pc = "done" =>
                            (thread'[t].status # NV_OK /\ ~thread'[t].claimed)
                     /\ thread'[t].channel # thread[t].channel =>
                            /\ thread'[t].channel =
                                   (thread[t].channel + 1) % NumChannels
                            /\ thread[t].pc \in {"ce_status", "ce_set_fatal"}]_vars
    /\ [](\A t \in PoolReservers :
              (thread[t].op = "reserve_in_pool" /\ thread[t].pc = "pool_scan") =>
                  \A d \in Channels :
                      d < thread[t].channel => ~channel_is_available(d))

\* C33 witness: the call returned NV_OK with the second channel of the
\* pool, the first one full, its one claim on the channel returned
C33_Witness ==
    \E t \in PoolReservers :
        /\ thread[t].op = "reserve_in_pool"
        /\ thread[t].pc = "done"
        /\ thread[t].status = NV_OK
        /\ thread[t].claimed
        /\ thread[t].channel = 1
        /\ ~channel_is_available(0)
        /\ current_pushes_count = [c \in Channels |-> IF c = 1 THEN 1 ELSE 0]

\* thread t is at a try_claim_channel of the loop of lines 193-210
AtPoolClaim(t) ==
    thread[t].op = "reserve_in_pool" /\ thread[t].pc = "pool_claim"

\* C34 as stated: after a scan of channel_reserve_in_pool in which no
\* channel could be claimed, every channel of the pool has had its progress
\* updated before the next scan makes any claim attempt.
C34_Original ==
    \A t \in PoolReservers :
        AtPoolClaim(t) => thread[t].updated = Channels

\* C34 amended: after a scan in which no channel could be claimed, each
\* channel has its progress updated before the next scan makes its claim
\* attempt on that channel: the scan updates and tries the channels one by
\* one in array order, so at the attempt on a channel the channels updated
\* are those up to it, and the attempt follows the update at once.
C34_Amended ==
    /\ [](\A t \in PoolReservers :
              AtPoolClaim(t) =>
                  thread[t].updated = {d \in Channels : d <= thread[t].channel})
    /\ [][\A t \in PoolReservers :
              (thread'[t].pc = "pool_claim" /\ thread'[t] # thread[t]) =>
                  /\ WalkEnds(t, thread'[t].channel)
                  /\ thread[t].max_to_complete = DefaultMaxToComplete]_vars

\* C34 witness: the first scan claimed nothing, and the call is at its claim
\* attempt on the first channel, whose progress alone it has updated, the
\* last channel still to be updated
C34_Witness ==
    \E t \in PoolReservers :
        /\ AtPoolClaim(t)
        /\ thread[t].channel = 0
        /\ thread[t].updated = {0}
        /\ NumChannels - 1 \notin thread[t].updated
        /\ \A c \in Channels : Pending(c) = N - 1

\* the default pool of the GPU_TO_GPU type
DefaultGpuToGpuPool == manager.default_for_type[UVM_CHANNEL_TYPE_GPU_TO_GPU]

\* pool p of the manager is the pool of copy engine ce, and no proxy pool
IsPoolOfCe(p, ce) ==
    /\ p \in 0 .. manager.num_channel_pools - 1
    /\ manager.channel_pools[p + 1].ce_index = ce
    /\ ~manager.channel_pools[p + 1].is_proxy

\* C35: uvm_channel_reserve_gpu_to_gpu reserves from the default
\* GPU_TO_GPU pool for every peer for which uvm_channel_manager_set_p2p_ce
\* was not called (no pool is stored for a peer before the call), and after
\* set_p2p_ce(peer, ce) from the pool whose ce_index is ce, for that peer
\* only: the call changes the pool of no other peer, no default pool of a
\* type and nothing else in the manager.
C35_PeerPool ==
    /\ [][/\ \A t \in P2pPushers, dst \in PeerGpus :
                 ReserveGpuToGpuCall(t, dst) =>
                     /\ manager' = manager
                     /\ manager.gpu_to_gpu[dst] = NULL =>
                            thread'[t].pool = DefaultGpuToGpuPool
                     /\ manager.gpu_to_gpu[dst] # NULL =>
                            thread'[t].pool = manager.gpu_to_gpu[dst]
          /\ \A peer \in PeerGpus, ce \in CopyEngines :
                 SetP2pCe(peer, ce) =>
                     /\ IsPoolOfCe(manager'.gpu_to_gpu[peer], ce)
                     /\ \A other \in PeerGpus \ {peer} :
                            manager'.gpu_to_gpu[other] = manager.gpu_to_gpu[other]
                     /\ manager'.default_for_type = manager.default_for_type
                     /\ [manager' EXCEPT !.gpu_to_gpu = manager.gpu_to_gpu] = manager
          /\ \A peer \in PeerGpus :
                 manager'.gpu_to_gpu[peer] # manager.gpu_to_gpu[peer] =>
                     \E ce \in CopyEngines : SetP2pCe(peer, ce)]_vars
    /\ [](\A peer \in PeerGpus :
              manager.gpu_to_gpu[peer] # NULL =>
                  \E ce \in manager.ce_mask : IsPoolOfCe(manager.gpu_to_gpu[peer], ce))

\* C35 witness: a reservation granted from the pool set for its peer, which
\* is not the default GPU_TO_GPU pool, while another peer has no pool set
C35_Witness ==
    \E t \in P2pPushers, peer \in PeerGpus :
        /\ thread[t].op = "reserve_in_pool"
        /\ thread[t].pc = "done"
        /\ thread[t].claimed
        /\ thread[t].pool = manager.gpu_to_gpu[peer]
        /\ thread[t].pool # DefaultGpuToGpuPool
        /\ \E other \in PeerGpus : manager.gpu_to_gpu[other] = NULL

\* the types picked before type, in the order of the picks
EarlierTypes(type) ==
    {types[j] : j \in {k \in 1 .. Len(types) :
                           \E i \in k + 1 .. Len(types) : types[i] = type}}

\* the number of earlier picks that chose ce
EarlierUsage(type, ce) ==
    Cardinality({e \in EarlierTypes(type) : manager.preferred_ce[e] = ce})

\* the criteria of a type for the copy engine ce, most important first,
\* lower being better in each
PreferenceKey(type, ce) ==
    LET cap == gpu.ces_caps[ce]
        pces == hweight32(cap.cePceMask)
        default == <<EarlierUsage(type, ce), cap.shared, ce>>
    IN  CASE type = UVM_CHANNEL_TYPE_CPU_TO_GPU ->
                 <<1 - cap.sysmemRead, cap.nvlinkP2p>> \o default
          [] type = UVM_CHANNEL_TYPE_GPU_TO_CPU ->
                 <<1 - cap.sysmemWrite, cap.nvlinkP2p>> \o default
          [] type = UVM_CHANNEL_TYPE_GPU_INTERNAL ->
                 <<0 - pces, cap.nvlinkP2p>> \o default
          [] type = UVM_CHANNEL_TYPE_GPU_TO_GPU ->
                 <<0 - pces>> \o default
          [] type = UVM_CHANNEL_TYPE_MEMOPS ->
                 default

\* key a comes before key b in the lexicographic order
LexLess(a, b) ==
    \E i \in 1 .. Len(a) :
        /\ a[i] < b[i]
        /\ \A j \in 1 .. i - 1 : a[j] = b[j]

\* the copy engines usable for a type
UsableCes(type) ==
    {ce \in CopyEngines : UsableFor(type, gpu.ces_caps[ce])}

\* C36: for every capability table and every channel type a copy engine
\* was picked for, the one picked is usable for the type and no other
\* usable one is strictly preferred under the lexicographic ordering of the
\* type (its own criteria, then the lower usage count among the earlier
\* picks, then not shared, then the lower index); the only usable copy
\* engine of a type is the one picked; when the picking succeeds every
\* type has a pick.
C36_BestPick ==
    manager.pc \notin {"init_conf", "pick_copy_engines"} =>
        \A type \in ChannelTypes :
            LET best == manager.preferred_ce[type]
            IN  /\ best # UVM_COPY_ENGINE_COUNT_MAX =>
                       /\ best \in UsableCes(type)
                       /\ \A ce \in UsableCes(type) \ {best} :
                              ~LexLess(PreferenceKey(type, ce),
                                       PreferenceKey(type, best))
                       /\ Cardinality(UsableCes(type)) = 1 =>
                              UsableCes(type) = {best}
                /\ manager.status # NV_ERR_NOT_SUPPORTED =>
                       best # UVM_COPY_ENGINE_COUNT_MAX
                /\ (best = UVM_COPY_ENGINE_COUNT_MAX /\ UsableCes(type) # {}) =>
                       \E e \in EarlierTypes(type) : UsableCes(e) = {}

\* C36 witness: copy engines picked for all types where the pick of
\* GPU_TO_CPU is decided by the usage count alone, against the lower index,
\* and MEMOPS has one usable copy engine more than it took
C36_Witness ==
    /\ manager.pc = "create_pools"
    /\ manager.status = NV_OK
    /\ LET type == UVM_CHANNEL_TYPE_GPU_TO_CPU
           best == manager.preferred_ce[type]
       IN  \E ce \in UsableCes(type) :
               /\ ce < best
               /\ EarlierUsage(type, ce) > EarlierUsage(type, best)
               /\ \A i \in 1 .. 2 :
                      PreferenceKey(type, ce)[i] = PreferenceKey(type, best)[i]
    /\ Cardinality(UsableCes(UVM_CHANNEL_TYPE_MEMOPS)) > 1

\* manager->ce_mask as the number whose bits it holds
RECURSIVE MaskBits(_)
MaskBits(mask) ==
    IF mask = {} THEN 0
    ELSE LET e == CHOOSE x \in mask : TRUE
         IN  2 ^ e + MaskBits(mask \ {e})

\* popcount(ce_mask & ((1 << c) - 1))
PoolIndexOfCe(c) == hweight32(BitAnd(MaskBits(manager.ce_mask), 2 ^ c - 1))

\* C37: after a successful construction of the manager there is one pool
\* that is no proxy pool for every copy engine of ce_mask, the mask of the
\* copy engines usable for some type, picked for a type or not; the pool of
\* copy engine c is at index popcount(ce_mask & ((1 << c) - 1)) and has
\* ce_index = c, as channel_manager_ce_pool asserts; the only other pool is
\* the proxy pool, the last one, on a GPU that uses one.
C37_PoolPerCe ==
    manager.pc = "created" =>
        LET nonProxy == {i \in 1 .. Len(manager.channel_pools) :
                             ~manager.channel_pools[i].is_proxy}
        IN  /\ manager.status = NV_OK
            /\ manager.ce_mask =
                   {ce \in CopyEngines : \E type \in ChannelTypes : ce \in UsableCes(type)}
            /\ Len(manager.channel_pools) = manager.num_channel_pools
            /\ Cardinality(nonProxy) = Cardinality(manager.ce_mask)
            /\ \A c \in manager.ce_mask :
                   /\ PoolIndexOfCe(c) + 1 \in nonProxy
                   /\ manager.channel_pools[PoolIndexOfCe(c) + 1].ce_index = c
            /\ \A i \in 1 .. Len(manager.channel_pools) :
                   manager.channel_pools[i].is_proxy =>
                       (i = Len(manager.channel_pools) /\ gpu.uses_proxy_channel_pool)
            /\ \A type \in ChannelTypes :
                   manager.preferred_ce[type] \in manager.ce_mask

\* C37 witness: a manager created with a pool for a copy engine that no
\* type prefers, and with a proxy pool after the pools of the copy engines
C37_Witness ==
    /\ manager.pc = "created"
    /\ gpu.uses_proxy_channel_pool
    /\ manager.num_channel_pools = Cardinality(manager.ce_mask) + 1
    /\ \E c \in manager.ce_mask :
           /\ \A type \in ChannelTypes : manager.preferred_ce[type] # c
           /\ manager.channel_pools[PoolIndexOfCe(c) + 1] =
                  [ce_index |-> c, is_proxy |-> FALSE]

\* C38: on a channel without error, reclaimed in Completed mode only,
\* whenever update_progress leaves the ring drained (gpu_get = cpu_put) with
\* current_pushes_count = 0 the channel is Idle, queued = completed; and
\* a successful end_push on a channel with queued = completed makes it
\* Active: queued > completed and cpu_put # gpu_get.
C38_IdleActive ==
    [][\A c \in Channels :
           errorNotifier[c] = 0 =>
               /\ \A t \in Threads :
                      (/\ WalkStep(t) /\ thread[t].channel = c
                       /\ thread[t].mode = UVM_CHANNEL_UPDATE_MODE_COMPLETED
                       /\ gpu_get'[c] = cpu_put'[c]
                       /\ current_pushes_count'[c] = 0)
                          => queued_value'[c] = completed_value'[c]
               /\ \A t \in Threads :
                      (/\ EndPushStep(t) /\ thread[t].channel = c
                       /\ queued_value[c] = completed_value[c])
                          => /\ queued_value'[c] > completed_value'[c]
                             /\ cpu_put'[c] # gpu_get'[c]
                             /\ queued_value'[c] = queued_value[c] + 1]_vars

\* C38 witness: a channel without error that a uvm_channel_update_progress
\* has just drained of its second push: Active became Idle again
C38_Witness ==
    \E t \in Threads :
        LET c == thread[t].channel
        IN  /\ thread[t].op = "update_progress"
            /\ thread[t].pc = "done"
            /\ thread[t].pending_gpfifos = 0
            /\ errorNotifier[c] = 0
            /\ gpu_get[c] = cpu_put[c]
            /\ current_pushes_count[c] = 0
            /\ queued_value[c] = completed_value[c]
            /\ queued_value[c] >= 2
            /\ Len(pushbuffer[c].mark_completed) = queued_value[c]

\* the channels of the log that belong to pool p, in the order of the log
RECURSIVE OfPool(_, _)
OfPool(log, p) ==
    IF log = <<>> THEN <<>>
    ELSE IF Head(log)[1] = p THEN <<Head(log)[2]>> \o OfPool(Tail(log), p)
    ELSE OfPool(Tail(log), p)

\* the pools the construction began to create
PoolsBegun == 1 .. Len(manager.num_channels)

\* C39: if the creation or the initialisation of a channel or of a pool
\* fails during the construction of the manager, the construction ends with
\* that error; every channel created so far is destroyed exactly once, the
\* channels of a pool from the last created to the first; the num_channels
\* of each pool and the num_channel_pools of the manager are 0 when the
\* teardown is over, and are never below 0.
C39_Teardown ==
    /\ manager.num_channel_pools >= 0
    /\ \A p \in PoolsBegun :
           /\ manager.num_channels[p] >= 0
           /\ manager.num_channels[p] =
                  Len(OfPool(manager.channels_created, p))
                      - Len(OfPool(manager.channels_destroyed, p))
    /\ manager.status # NV_OK => manager.pc \in {"destroy", "failed"}
    /\ manager.pc \in {"destroy", "failed"} =>
           manager.status \in {NV_ERR_NOT_SUPPORTED, NV_ERR_NO_MEMORY, NV_ERR_RC_ERROR}
    /\ manager.pc = "failed" =>
           /\ manager.num_channel_pools = 0
           /\ Len(manager.channels_destroyed) = Len(manager.channels_created)
           /\ \A p \in PoolsBegun :
                  LET made == OfPool(manager.channels_created, p)
                      gone == OfPool(manager.channels_destroyed, p)
                  IN  /\ manager.num_channels[p] = 0
                      /\ Len(gone) = Len(made)
                      /\ \A k \in 1 .. Len(made) :
                             /\ made[k] = k - 1
                             /\ gone[k] = made[Len(made) + 1 - k]

\* C39 witness: init_channel failed on the second channel of the second
\* pool; the teardown is over, four channels destroyed, the pool that
\* failed before the first one
C39_Witness ==
    /\ manager.pc = "failed"
    /\ manager.status = NV_ERR_RC_ERROR
    /\ manager.channels_created = <<<<1, 0>>, <<1, 1>>, <<2, 0>>, <<2, 1>>>>
    /\ manager.channels_destroyed = <<<<2, 1>>, <<2, 0>>, <<1, 1>>, <<1, 0>>>>
    /\ manager.num_channels = <<0, 0>>
    /\ manager.num_channel_pools = 0

\* the tracking value of the last GP-entry the GPU has executed: the value
\* stamped into the slot before the GPU's read pointer
LatestRelease(c) ==
    gpfifo_entries[c][(hw_get[c] + N - 1) % N].tracking_semaphore_value

\* C40: end_push releases the payload tracking_value mod 2^PayloadBits; the
\* semaphore word holds the payload of the GPU's latest release, and the
\* refresh, which combines that payload with the high bits of queued and
\* subtracts 2^PayloadBits when the result exceeds queued, yields exactly
\* the tracking value of that release, for the queued value of the moment
\* and for every later one less than 2^PayloadBits ahead of the release.
C40_PayloadRoundTrip ==
    /\ [](\A c \in Channels :
             LET v == LatestRelease(c)
             IN  /\ sem_payload[c] = v % PayloadMod
                 /\ \A q \in queued_value[c] .. (queued_value[c] + PayloadMod) :
                        q - v < PayloadMod =>
                            ReconstructCompleted(sem_payload[c], q) = v)
    /\ [][\A t \in Threads :
             LET c == thread[t].channel
             IN  /\ EndPush(t) =>
                        /\ queued_value'[c] = queued_value[c] + 1
                        /\ gpFifoEntries'[c][cpu_put[c]] =
                               queued_value'[c] % PayloadMod
                 /\ (UpdateProgressRefresh(t)
                         /\ queued_value[c] - LatestRelease(c) < PayloadMod) =>
                        /\ completed_value'[c] = LatestRelease(c)
                        /\ thread'[t].completed_value = LatestRelease(c)]_vars

\* C40 witness: a refresh has just rebuilt the value of the latest release
\* from a payload above the low bits of queued, one payload period
\* subtracted, after the payload has wrapped at least once
C40_Witness ==
    \E t \in Threads :
        LET c == thread[t].channel
        IN  /\ thread[t].pc = "up_walk"
            /\ thread[t].completed_value = LatestRelease(c)
            /\ completed_value[c] = LatestRelease(c)
            /\ completed_value[c] >= PayloadMod
            /\ sem_payload[c] > queued_value[c] % PayloadMod

====
